---------------------------- MODULE Spec2Model ----------------------------
(***************************************************************************)
(* A model of the BOON binary codec (primary, fixed-width tag scheme):     *)
(* the encoder with its optional per-message key table, the eager decoder  *)
(* and the generator-based streaming decoder, all at the level of bytes.   *)
(*                                                                         *)
(* JSON values are tagged tuples:                                          *)
(*   <<"null">>  <<"bool", b>>  <<"int", n>>  <<"str", s>>                 *)
(*   <<"arr", <<v1, ..., vn>> >>   <<"obj", << <<k1, v1>>, ... >> >>       *)
(* where a string is the sequence of its Unicode code points and an object *)
(* is the sequence of its entries in Object.keys order.  Non-integer       *)
(* numbers (FLOAT32/FLOAT64 payloads) are outside the model; integers are  *)
(* those of the 32-bit signed range, a decoded fixed-width payload beyond  *)
(* that range is kept as <<"big", payloadBytes>>.                          *)
(***************************************************************************)
EXTENDS Integers, Sequences, FiniteSets, TLC

VARIABLES
  pc,         \* "init" | "ready" | "decoded" | "streaming" | "done"
  origin,     \* "none" | "encode" | "craft": where `data` came from
  value,      \* the JsonValue handed to encode
  opts,       \* [includeHeader, useStringTable, expectHeader]
  data,       \* the message bytes (Uint8Array) given to the decoders
  result,     \* what decodeValue returned or threw
  sOffset,    \* streaming decoder: reader.offset
  sKeyTable,  \* streaming decoder: keyTable (NoTable when null)
  sStack,     \* streaming decoder: suspended streamValue frames
  sEvents,    \* streaming decoder: events yielded to the consumer so far
  sStatus,    \* "idle" | "running" | "returned" | "threw"
  sError,     \* the error thrown into the consumer, "none" before
  buf         \* the encoder's GrowableBuffer: [buffer, offset, thrown]

vars == <<pc, origin, value, opts, data, result,
          sOffset, sKeyTable, sStack, sEvents, sStatus, sError, buf>>

----------------------------------------------------------------------------
(* constants.ts *)

TAG_NULL == 0
TAG_FALSE == 1
TAG_TRUE == 2
TAG_INT8 == 16
TAG_INT16 == 17
TAG_INT32 == 18
TAG_INT64 == 19
TAG_UINT8 == 20
TAG_UINT16 == 21
TAG_UINT32 == 22
TAG_FLOAT32 == 32
TAG_FLOAT64 == 33
TAG_STRING_EMPTY == 48
TAG_STRING_SHORT == 49
TAG_STRING_MEDIUM == 50
TAG_STRING_LONG == 51
TAG_ARRAY_EMPTY == 64
TAG_ARRAY_SHORT == 65
TAG_ARRAY_MEDIUM == 66
TAG_ARRAY_LONG == 67
TAG_OBJECT_EMPTY == 80
TAG_OBJECT_SHORT == 81
TAG_OBJECT_MEDIUM == 82
TAG_OBJECT_LONG == 83
TAG_HEADER_WITH_STRING_TABLE == 96

MAGIC_NUMBER == <<66, 79, 79, 78>>   \* "BOON"
FORMAT_VERSION == 1

MAX_SHORT_LENGTH == 255
MAX_MEDIUM_LENGTH == 65535
INT8_MIN == -128
INT8_MAX == 127
INT16_MIN == -32768
INT16_MAX == 32767
INT32_MIN == (-2147483647) - 1
INT32_MAX == 2147483647
UINT8_MAX == 255
UINT16_MAX == 65535

(* common-keys: the dictionary and its byte band *)
COMMON_KEY_MIN == 128
COMMON_KEY_MAX == 255

COMMON_KEYS ==
  <<
    <<105,100>>,  \* 0x80 'id'
    <<110,97,109,101>>,  \* 0x81 'name'
    <<116,121,112,101>>,  \* 0x82 'type'
    <<118,97,108,117,101>>,  \* 0x83 'value'
    <<100,97,116,97>>,  \* 0x84 'data'
    <<107,101,121>>,  \* 0x85 'key'
    <<108,97,98,101,108>>,  \* 0x86 'label'
    <<116,101,120,116>>,  \* 0x87 'text'
    <<116,105,116,108,101>>,  \* 0x88 'title'
    <<100,101,115,99,114,105,112,116,105,111,110>>,  \* 0x89 'description'
    <<115,116,97,116,117,115>>,  \* 0x8A 'status'
    <<99,111,100,101>>,  \* 0x8B 'code'
    <<109,101,115,115,97,103,101>>,  \* 0x8C 'message'
    <<101,114,114,111,114>>,  \* 0x8D 'error'
    <<114,101,115,117,108,116>>,  \* 0x8E 'result'
    <<115,117,99,99,101,115,115>>,  \* 0x8F 'success'
    <<117,115,101,114>>,  \* 0x90 'user'
    <<101,109,97,105,108>>,  \* 0x91 'email'
    <<112,97,115,115,119,111,114,100>>,  \* 0x92 'password'
    <<116,111,107,101,110>>,  \* 0x93 'token'
    <<99,114,101,97,116,101,100>>,  \* 0x94 'created'
    <<117,112,100,97,116,101,100>>,  \* 0x95 'updated'
    <<100,101,108,101,116,101,100>>,  \* 0x96 'deleted'
    <<116,105,109,101,115,116,97,109,112>>,  \* 0x97 'timestamp'
    <<100,97,116,101>>,  \* 0x98 'date'
    <<116,105,109,101>>,  \* 0x99 'time'
    <<117,114,108>>,  \* 0x9A 'url'
    <<108,105,110,107>>,  \* 0x9B 'link'
    <<104,114,101,102>>,  \* 0x9C 'href'
    <<115,114,99>>,  \* 0x9D 'src'
    <<105,109,97,103,101>>,  \* 0x9E 'image'
    <<105,99,111,110>>,  \* 0x9F 'icon'
    <<99,111,117,110,116>>,  \* 0xA0 'count'
    <<116,111,116,97,108>>,  \* 0xA1 'total'
    <<115,105,122,101>>,  \* 0xA2 'size'
    <<108,101,110,103,116,104>>,  \* 0xA3 'length'
    <<119,105,100,116,104>>,  \* 0xA4 'width'
    <<104,101,105,103,104,116>>,  \* 0xA5 'height'
    <<105,110,100,101,120>>,  \* 0xA6 'index'
    <<112,111,115,105,116,105,111,110>>,  \* 0xA7 'position'
    <<111,114,100,101,114>>,  \* 0xA8 'order'
    <<108,101,118,101,108>>,  \* 0xA9 'level'
    <<112,114,105,111,114,105,116,121>>,  \* 0xAA 'priority'
    <<115,99,111,114,101>>,  \* 0xAB 'score'
    <<114,97,116,105,110,103>>,  \* 0xAC 'rating'
    <<112,114,105,99,101>>,  \* 0xAD 'price'
    <<97,109,111,117,110,116>>,  \* 0xAE 'amount'
    <<113,117,97,110,116,105,116,121>>,  \* 0xAF 'quantity'
    <<97,99,116,105,118,101>>,  \* 0xB0 'active'
    <<101,110,97,98,108,101,100>>,  \* 0xB1 'enabled'
    <<100,105,115,97,98,108,101,100>>,  \* 0xB2 'disabled'
    <<118,105,115,105,98,108,101>>,  \* 0xB3 'visible'
    <<104,105,100,100,101,110>>,  \* 0xB4 'hidden'
    <<112,117,98,108,105,99>>,  \* 0xB5 'public'
    <<112,114,105,118,97,116,101>>,  \* 0xB6 'private'
    <<97,100,109,105,110>>,  \* 0xB7 'admin'
    <<111,119,110,101,114>>,  \* 0xB8 'owner'
    <<97,117,116,104,111,114>>,  \* 0xB9 'author'
    <<99,114,101,97,116,111,114>>,  \* 0xBA 'creator'
    <<109,111,100,105,102,105,101,114>>,  \* 0xBB 'modifier'
    <<112,97,114,101,110,116>>,  \* 0xBC 'parent'
    <<99,104,105,108,100>>,  \* 0xBD 'child'
    <<99,104,105,108,100,114,101,110>>,  \* 0xBE 'children'
    <<105,116,101,109,115>>,  \* 0xBF 'items'
    <<99,111,110,102,105,103>>,  \* 0xC0 'config'
    <<111,112,116,105,111,110,115>>,  \* 0xC1 'options'
    <<115,101,116,116,105,110,103,115>>,  \* 0xC2 'settings'
    <<112,97,114,97,109,115>>,  \* 0xC3 'params'
    <<109,101,116,97,100,97,116,97>>,  \* 0xC4 'metadata'
    <<97,116,116,114,105,98,117,116,101,115>>,  \* 0xC5 'attributes'
    <<112,114,111,112,101,114,116,105,101,115>>,  \* 0xC6 'properties'
    <<102,105,101,108,100,115>>,  \* 0xC7 'fields'
    <<99,111,108,117,109,110,115>>,  \* 0xC8 'columns'
    <<114,111,119,115>>,  \* 0xC9 'rows'
    <<114,101,99,111,114,100,115>>,  \* 0xCA 'records'
    <<101,110,116,114,105,101,115>>,  \* 0xCB 'entries'
    <<116,97,103,115>>,  \* 0xCC 'tags'
    <<99,97,116,101,103,111,114,105,101,115>>,  \* 0xCD 'categories'
    <<103,114,111,117,112,115>>,  \* 0xCE 'groups'
    <<102,105,108,116,101,114>>,  \* 0xCF 'filter'
    <<97,99,116,105,111,110>>,  \* 0xD0 'action'
    <<109,101,116,104,111,100>>,  \* 0xD1 'method'
    <<101,118,101,110,116>>,  \* 0xD2 'event'
    <<99,97,108,108,98,97,99,107>>,  \* 0xD3 'callback'
    <<104,97,110,100,108,101,114>>,  \* 0xD4 'handler'
    <<114,101,115,112,111,110,115,101>>,  \* 0xD5 'response'
    <<114,101,113,117,101,115,116>>,  \* 0xD6 'request'
    <<113,117,101,114,121>>,  \* 0xD7 'query'
    <<115,101,97,114,99,104>>,  \* 0xD8 'search'
    <<115,111,114,116>>,  \* 0xD9 'sort'
    <<108,105,109,105,116>>,  \* 0xDA 'limit'
    <<111,102,102,115,101,116>>,  \* 0xDB 'offset'
    <<112,97,103,101>>,  \* 0xDC 'page'
    <<112,101,114,95,112,97,103,101>>,  \* 0xDD 'per_page'
    <<110,101,120,116>>,  \* 0xDE 'next'
    <<112,114,101,118>>,  \* 0xDF 'prev'
    <<99,111,110,116,101,110,116>>,  \* 0xE0 'content'
    <<98,111,100,121>>,  \* 0xE1 'body'
    <<104,101,97,100,101,114>>,  \* 0xE2 'header'
    <<102,111,111,116,101,114>>,  \* 0xE3 'footer'
    <<115,105,100,101,98,97,114>>,  \* 0xE4 'sidebar'
    <<109,101,110,117>>,  \* 0xE5 'menu'
    <<110,97,118>>,  \* 0xE6 'nav'
    <<115,101,99,116,105,111,110>>,  \* 0xE7 'section'
    <<97,114,116,105,99,108,101>>,  \* 0xE8 'article'
    <<112,111,115,116>>,  \* 0xE9 'post'
    <<99,111,109,109,101,110,116>>,  \* 0xEA 'comment'
    <<114,101,112,108,121>>,  \* 0xEB 'reply'
    <<102,105,108,101>>,  \* 0xEC 'file'
    <<102,111,108,100,101,114>>,  \* 0xED 'folder'
    <<100,105,114,101,99,116,111,114,121>>,  \* 0xEE 'directory'
    <<112,97,116,104>>,  \* 0xEF 'path'
    <<105,110,102,111>>,  \* 0xF0 'info'
    <<100,101,116,97,105,108,115>>,  \* 0xF1 'details'
    <<115,117,109,109,97,114,121>>,  \* 0xF2 'summary'
    <<118,101,114,115,105,111,110>>,  \* 0xF3 'version'
    <<102,111,114,109,97,116>>,  \* 0xF4 'format'
    <<101,110,99,111,100,105,110,103>>,  \* 0xF5 'encoding'
    <<108,97,110,103,117,97,103,101>>,  \* 0xF6 'language'
    <<108,111,99,97,108,101>>,  \* 0xF7 'locale'
    <<116,105,109,101,122,111,110,101>>,  \* 0xF8 'timezone'
    <<99,117,114,114,101,110,99,121>>,  \* 0xF9 'currency'
    <<117,110,105,116>>,  \* 0xFA 'unit'
    <<115,116,97,116,101>>,  \* 0xFB 'state'
    <<109,111,100,101>>,  \* 0xFC 'mode'
    <<116,104,101,109,101>>,  \* 0xFD 'theme'
    <<115,116,121,108,101>>,  \* 0xFE 'style'
    <<99,108,97,115,115>>  \* 0xFF 'class'
  >>

\* COMMON_KEYS_MAP.get(key): the byte 0x80 + index, or -1 for undefined
COMMON_KEYS_MAP(key) ==
  IF \E i \in 1..Len(COMMON_KEYS) : COMMON_KEYS[i] = key
    THEN COMMON_KEY_MIN + (CHOOSE i \in 1..Len(COMMON_KEYS) : COMMON_KEYS[i] = key) - 1
    ELSE -1

----------------------------------------------------------------------------
(* Bytes, big-endian fields and 32-bit arithmetic *)

Byte == 0..255

Pow2(n) == 2 ^ n

\* DataView.setUint16 / setInt16 (big-endian): two's complement of the low 16 bits
BE16(n) == << (n \div 256) % 256, n % 256 >>

\* DataView.setUint32 / setInt32 (big-endian)
BE32(n) == << (n \div 16777216) % 256, (n \div 65536) % 256, (n \div 256) % 256, n % 256 >>

\* DataView.setBigInt64 (big-endian) of a value of the model's integer range:
\* the sign extends over the upper four bytes
BE64(n) == (IF n < 0 THEN <<255, 255, 255, 255>> ELSE <<0, 0, 0, 0>>) \o BE32(n)

\* the 32 bits of a JavaScript int32, least significant first
Bits32(n) == [i \in 0..31 |-> IF i = 31 THEN (IF n < 0 THEN 1 ELSE 0)
                                         ELSE (n \div Pow2(i)) % 2]

RECURSIVE SumBits(_, _)
SumBits(bits, i) == IF i < 0 THEN 0 ELSE bits[i] * Pow2(i) + SumBits(bits, i - 1)

\* the int32 with the given bits
FromBits32(bits) ==
  IF bits[31] = 1 THEN (SumBits(bits, 30) - 2147483647) - 1 ELSE SumBits(bits, 30)

\* JavaScript x << s on int32: the shift count is taken modulo 32
Shl32(x, s) ==
  LET k == s % 32
      xb == Bits32(x)
  IN FromBits32([i \in 0..31 |-> IF i >= k THEN xb[i - k] ELSE 0])

\* JavaScript a | b on int32
Or32(a, b) ==
  LET ab == Bits32(a)
      bb == Bits32(b)
  IN FromBits32([i \in 0..31 |-> IF ab[i] = 1 \/ bb[i] = 1 THEN 1 ELSE 0])

----------------------------------------------------------------------------
(* Strings: TextEncoder / TextDecoder('utf-8') and String.length *)

\* TextEncoder.encode of one code point
Utf8OfCodePoint(c) ==
  IF c < 128 THEN <<c>>
  ELSE IF c < 2048 THEN << 192 + (c \div 64), 128 + (c % 64) >>
  ELSE IF c < 65536 THEN << 224 + (c \div 4096), 128 + ((c \div 64) % 64), 128 + (c % 64) >>
  ELSE << 240 + (c \div 262144), 128 + ((c \div 4096) % 64),
          128 + ((c \div 64) % 64), 128 + (c % 64) >>

\* the first index j >= i with s[j] >= 128, or Len(s) + 1: the end of the run
\* of one-byte (ASCII) elements that starts at i
AsciiRunEnd(s, i) ==
  LET stops == {j \in i..Len(s) : s[j] >= 128}
  IN IF stops = {} THEN Len(s) + 1
     ELSE CHOOSE j \in stops : \A k \in stops : j <= k

\* TextEncoder.encode from code point i on; a run of ASCII is copied whole
RECURSIVE Utf8EncodeFrom(_, _)
Utf8EncodeFrom(s, i) ==
  IF i > Len(s) THEN <<>>
  ELSE LET j == AsciiRunEnd(s, i)
       IN SubSeq(s, i, j - 1)
            \o (IF j > Len(s) THEN <<>>
                ELSE Utf8OfCodePoint(s[j]) \o Utf8EncodeFrom(s, j + 1))

textEncoder_encode(s) == Utf8EncodeFrom(s, 1)

\* String.length counts UTF-16 code units
StringLength(s) == Len(s) + Cardinality({i \in 1..Len(s) : s[i] >= 65536})

IsCont(b) == b >= 128 /\ b <= 191

REPLACEMENT == 65533   \* U+FFFD

\* The WHATWG UTF-8 decoder in replacement (non-fatal) mode, from byte i (1-based):
\* an ill-formed sequence yields U+FFFD and decoding resumes after its
\* maximal valid prefix.  A run of ASCII bytes is copied whole.
RECURSIVE Utf8DecodeFrom(_, _)
Utf8DecodeFrom(b, i) ==
  IF i > Len(b) THEN <<>>
  ELSE
    LET b0 == b[i]
        has(k) == i + k <= Len(b)
        lo2 == IF b0 = 224 THEN 160 ELSE IF b0 = 240 THEN 144 ELSE 128
        hi2 == IF b0 = 237 THEN 159 ELSE IF b0 = 244 THEN 143 ELSE 191
        ok2 == has(1) /\ b[i + 1] >= lo2 /\ b[i + 1] <= hi2
    IN
    IF b0 < 128 THEN
      LET j == AsciiRunEnd(b, i)
      IN SubSeq(b, i, j - 1) \o Utf8DecodeFrom(b, j)
    ELSE IF b0 >= 194 /\ b0 <= 223 THEN
      IF has(1) /\ IsCont(b[i + 1])
        THEN << (b0 - 192) * 64 + (b[i + 1] - 128) >> \o Utf8DecodeFrom(b, i + 2)
        ELSE <<REPLACEMENT>> \o Utf8DecodeFrom(b, i + 1)
    ELSE IF b0 >= 224 /\ b0 <= 239 THEN
      IF ~ok2 THEN <<REPLACEMENT>> \o Utf8DecodeFrom(b, i + 1)
      ELSE IF ~(has(2) /\ IsCont(b[i + 2])) THEN <<REPLACEMENT>> \o Utf8DecodeFrom(b, i + 2)
      ELSE << (b0 - 224) * 4096 + (b[i + 1] - 128) * 64 + (b[i + 2] - 128) >>
             \o Utf8DecodeFrom(b, i + 3)
    ELSE IF b0 >= 240 /\ b0 <= 244 THEN
      IF ~ok2 THEN <<REPLACEMENT>> \o Utf8DecodeFrom(b, i + 1)
      ELSE IF ~(has(2) /\ IsCont(b[i + 2])) THEN <<REPLACEMENT>> \o Utf8DecodeFrom(b, i + 2)
      ELSE IF ~(has(3) /\ IsCont(b[i + 3])) THEN <<REPLACEMENT>> \o Utf8DecodeFrom(b, i + 3)
      ELSE << (b0 - 240) * 262144 + (b[i + 1] - 128) * 4096
                + (b[i + 2] - 128) * 64 + (b[i + 3] - 128) >> \o Utf8DecodeFrom(b, i + 4)
    ELSE <<REPLACEMENT>> \o Utf8DecodeFrom(b, i + 1)

BOM == 65279   \* U+FEFF

\* textDecoder.decode(bytes): new TextDecoder('utf-8') is neither fatal nor
\* ignoreBOM, so a leading byte order mark is dropped from the output
textDecoder_decode(b) ==
  IF Len(b) >= 3 /\ b[1] = 239 /\ b[2] = 187 /\ b[3] = 191
    THEN Utf8DecodeFrom(b, 4)
    ELSE Utf8DecodeFrom(b, 1)

----------------------------------------------------------------------------
(* shared/buffer.ts: createBinaryReader.  A read returns the value read   *)
(* and the advanced offset, or the RangeError it throws.                  *)

Ok(v, o) == [ok |-> TRUE, val |-> v, off |-> o, err |-> "none"]
Fail(e, o) == [ok |-> FALSE, val |-> <<"none">>, off |-> o, err |-> e]

readUint8(b, off) ==
  IF off >= Len(b) THEN Fail("RangeError", off) ELSE Ok(b[off + 1], off + 1)

readInt8(b, off) ==
  IF off >= Len(b) THEN Fail("RangeError", off)
  ELSE Ok(IF b[off + 1] >= 128 THEN b[off + 1] - 256 ELSE b[off + 1], off + 1)

readUint16(b, off) ==
  IF off + 2 > Len(b) THEN Fail("RangeError", off)
  ELSE Ok(b[off + 1] * 256 + b[off + 2], off + 2)

readInt16(b, off) ==
  IF off + 2 > Len(b) THEN Fail("RangeError", off)
  ELSE Ok((IF b[off + 1] >= 128 THEN b[off + 1] - 256 ELSE b[off + 1]) * 256 + b[off + 2],
          off + 2)

\* The model's integers end at 2^31 - 1: an unsigned 32-bit field with its
\* top bit set reads as INT32_MAX, which as a length or count exceeds every
\* buffer of the model just as the true value does.
readUint32(b, off) ==
  IF off + 4 > Len(b) THEN Fail("RangeError", off)
  ELSE IF b[off + 1] >= 128 THEN Ok(INT32_MAX, off + 4)
  ELSE Ok(b[off + 1] * 16777216 + b[off + 2] * 65536 + b[off + 3] * 256 + b[off + 4],
          off + 4)

readInt32(b, off) ==
  IF off + 4 > Len(b) THEN Fail("RangeError", off)
  ELSE Ok((IF b[off + 1] >= 128 THEN b[off + 1] - 256 ELSE b[off + 1]) * 16777216
            + b[off + 2] * 65536 + b[off + 3] * 256 + b[off + 4], off + 4)

\* readBytes(length): for a negative length the bounds test passes and
\* slice(offset, offset + length) is empty while the offset moves back
readBytes(b, off, length) ==
  IF length > Len(b) - off THEN Fail("RangeError", off)
  ELSE IF length <= 0 THEN Ok(<<>>, off + length)
  ELSE Ok(SubSeq(b, off + 1, off + length), off + length)

----------------------------------------------------------------------------
(* encode/encoder.ts *)

Kind(v) == v[1]

NoKeyMap == <<"undefined">>
KeyMapOf(keys) == <<"map", keys>>

\* the concatenation of the sequences seqs[lo..hi], by halves
RECURSIVE Concat(_, _, _)
Concat(seqs, lo, hi) ==
  IF lo > hi THEN <<>>
  ELSE IF lo = hi THEN seqs[lo]
  ELSE LET mid == (lo + hi) \div 2
       IN Concat(seqs, lo, mid) \o Concat(seqs, mid + 1, hi)

\* The traversal shared by collectKeys and countKeys: arrays item by item,
\* objects entry by entry in Object.keys order, the key before the keys of
\* its value.  The result lists every key occurrence in that order.
RECURSIVE KeyOccurrences(_)
KeyOccurrences(v) ==
  IF Kind(v) = "arr"
    THEN Concat([i \in 1..Len(v[2]) |-> KeyOccurrences(v[2][i])], 1, Len(v[2]))
  ELSE IF Kind(v) = "obj"
    THEN Concat([i \in 1..Len(v[2]) |-> <<v[2][i][1]>> \o KeyOccurrences(v[2][i][2])],
                1, Len(v[2]))
  ELSE <<>>

\* the members of the index set S in increasing order
Sorted(S) ==
  [k \in 1..Cardinality(S) |-> CHOOSE i \in S : Cardinality({j \in S : j < i}) = k - 1]

\* collectKeys that lets a later occurrence of a key take the place of the first
collectKeys_last(v) ==
  LET occ == KeyOccurrences(v)
      lasts == {i \in 1..Len(occ) : \A j \in (i + 1)..Len(occ) : occ[j] # occ[i]}
      order == Sorted(lasts)
  IN [k \in 1..Len(order) |-> occ[order[k]]]

\* collectKeys(value): keys.add(key) on a Set keeps the first occurrence of
\* each key, in insertion order
collectKeys(v) ==
  LET occ == KeyOccurrences(v)
      firsts == {i \in 1..Len(occ) : \A j \in 1..(i - 1) : occ[j] # occ[i]}
      order == Sorted(firsts)
  IN [k \in 1..Len(order) |-> occ[order[k]]]

\* writeVarint: at most four bytes are written; the last one is stored into a
\* Uint8Array element and so keeps its low eight bits
writeVarint(n) ==
  IF n < 128 THEN <<n>>
  ELSE IF n < 16384 THEN << (n % 128) + 128, n \div 128 >>
  ELSE IF n < 2097152 THEN << (n % 128) + 128, ((n \div 128) % 128) + 128, n \div 16384 >>
  ELSE << (n % 128) + 128, ((n \div 128) % 128) + 128, ((n \div 16384) % 128) + 128,
          (n \div 2097152) % 256 >>

RECURSIVE writeStringTableKeys(_)
writeStringTableKeys(keys) ==
  IF keys = <<>> THEN <<>>
  ELSE LET bytes == textEncoder_encode(Head(keys))
       IN writeVarint(Len(bytes)) \o bytes \o writeStringTableKeys(Tail(keys))

\* writeStringTable: tag 0x60, version, key count, then each key
writeStringTable(keys) ==
  <<TAG_HEADER_WITH_STRING_TABLE, FORMAT_VERSION>> \o writeVarint(Len(keys))
    \o writeStringTableKeys(keys)

writeHeader == MAGIC_NUMBER \o <<FORMAT_VERSION>>

writeNull == <<TAG_NULL>>

writeBoolean(b) == IF b THEN <<TAG_TRUE>> ELSE <<TAG_FALSE>>

\* writeNumber for an integer (Number.isInteger holds).  Every integer of the
\* model is at most INT32_MAX, so the comparison with UINT32_MAX is true
\* whenever it is reached.
writeNumber(n) ==
  IF n >= INT8_MIN /\ n <= INT8_MAX THEN <<TAG_INT8, n % 256>>
  ELSE IF n >= INT16_MIN /\ n <= INT16_MAX THEN <<TAG_INT16>> \o BE16(n)
  ELSE IF n >= INT32_MIN /\ n <= INT32_MAX THEN <<TAG_INT32>> \o BE32(n)
  ELSE IF n >= 0 /\ n <= UINT8_MAX THEN <<TAG_UINT8, n>>
  ELSE IF n >= 0 /\ n <= UINT16_MAX THEN <<TAG_UINT16>> \o BE16(n)
  ELSE IF n >= 0 THEN <<TAG_UINT32>> \o BE32(n)
  ELSE <<TAG_INT64>> \o BE64(n)

writeString(s) ==
  IF StringLength(s) = 0 THEN <<TAG_STRING_EMPTY>>
  ELSE
    LET bytes == textEncoder_encode(s)
        length == Len(bytes)
    IN IF length <= MAX_SHORT_LENGTH THEN <<TAG_STRING_SHORT, length>> \o bytes
       ELSE IF length <= MAX_MEDIUM_LENGTH THEN <<TAG_STRING_MEDIUM>> \o BE16(length) \o bytes
       ELSE <<TAG_STRING_LONG>> \o BE32(length) \o bytes

\* writeKeyString: a common key is its dictionary byte; any other key is a
\* length prefix (1 byte, or marker 254 + 2 bytes, or marker 255 + 4 bytes)
\* followed by its UTF-8 bytes
writeKeyString(key) ==
  LET commonKeyId == COMMON_KEYS_MAP(key)
      bytes == textEncoder_encode(key)
      length == Len(bytes)
  IN IF commonKeyId # -1 THEN <<commonKeyId>>
     ELSE IF length <= 127 THEN <<length>> \o bytes
     ELSE IF length <= MAX_MEDIUM_LENGTH THEN <<254>> \o BE16(length) \o bytes
     ELSE <<255>> \o BE32(length) \o bytes

\* the tag and count field that open a non-empty array or object
LengthField(n, tagShort, tagMedium, tagLong) ==
  IF n <= MAX_SHORT_LENGTH THEN <<tagShort, n>>
  ELSE IF n <= MAX_MEDIUM_LENGTH THEN <<tagMedium>> \o BE16(n)
  ELSE <<tagLong>> \o BE32(n)

\* keyMap.get(key): the index of the key in the table
KeyMapGet(keyMap, key) ==
  (CHOOSE i \in 1..Len(keyMap[2]) : keyMap[2][i] = key) - 1

RECURSIVE writeValue(_)
RECURSIVE writeValueWithKeyMap(_, _)
RECURSIVE writeArrayItems(_, _)
RECURSIVE writeObjectEntries(_)
RECURSIVE writeObjectWithKeyMapEntries(_, _)

writeArrayItems(items, keyMap) ==
  IF items = <<>> THEN <<>>
  ELSE (IF keyMap[1] = "map" THEN writeValueWithKeyMap(Head(items), keyMap)
                             ELSE writeValue(Head(items)))
         \o writeArrayItems(Tail(items), keyMap)

writeArray(items, keyMap) ==
  IF Len(items) = 0 THEN <<TAG_ARRAY_EMPTY>>
  ELSE LengthField(Len(items), TAG_ARRAY_SHORT, TAG_ARRAY_MEDIUM, TAG_ARRAY_LONG)
         \o writeArrayItems(items, keyMap)

writeObjectEntries(entries) ==
  IF entries = <<>> THEN <<>>
  ELSE writeKeyString(Head(entries)[1]) \o writeValue(Head(entries)[2])
         \o writeObjectEntries(Tail(entries))

writeObject(entries) ==
  IF Len(entries) = 0 THEN <<TAG_OBJECT_EMPTY>>
  ELSE LengthField(Len(entries), TAG_OBJECT_SHORT, TAG_OBJECT_MEDIUM, TAG_OBJECT_LONG)
         \o writeObjectEntries(entries)

writeObjectWithKeyMapEntries(entries, keyMap) ==
  IF entries = <<>> THEN <<>>
  ELSE writeVarint(KeyMapGet(keyMap, Head(entries)[1]))
         \o writeValueWithKeyMap(Head(entries)[2], keyMap)
         \o writeObjectWithKeyMapEntries(Tail(entries), keyMap)

writeObjectWithKeyMap(entries, keyMap) ==
  IF Len(entries) = 0 THEN <<TAG_OBJECT_EMPTY>>
  ELSE LengthField(Len(entries), TAG_OBJECT_SHORT, TAG_OBJECT_MEDIUM, TAG_OBJECT_LONG)
         \o writeObjectWithKeyMapEntries(entries, keyMap)

writeValue(v) ==
  CASE Kind(v) = "null" -> writeNull
    [] Kind(v) = "bool" -> writeBoolean(v[2])
    [] Kind(v) = "int" -> writeNumber(v[2])
    [] Kind(v) = "str" -> writeString(v[2])
    [] Kind(v) = "arr" -> writeArray(v[2], NoKeyMap)
    [] Kind(v) = "obj" -> writeObject(v[2])

writeValueWithKeyMap(v, keyMap) ==
  CASE Kind(v) = "null" -> writeNull
    [] Kind(v) = "bool" -> writeBoolean(v[2])
    [] Kind(v) = "int" -> writeNumber(v[2])
    [] Kind(v) = "str" -> writeString(v[2])
    [] Kind(v) = "arr" -> writeArray(v[2], keyMap)
    [] Kind(v) = "obj" -> writeObjectWithKeyMap(v[2], keyMap)

\* countKeys(value): the keyUsage map as the sequence of <<key, count>> in
\* insertion order
countKeys(v) ==
  LET occ == KeyOccurrences(v)
      keys == collectKeys(v)
  IN [k \in 1..Len(keys) |->
        <<keys[k], Cardinality({i \in 1..Len(occ) : occ[i] = keys[k]})>>]

RECURSIVE SumRange(_, _, _)
SumRange(s, lo, hi) ==
  IF lo > hi THEN 0
  ELSE IF lo = hi THEN s[lo]
  ELSE LET mid == (lo + hi) \div 2
       IN SumRange(s, lo, mid) + SumRange(s, mid + 1, hi)

SumSeq(s) == SumRange(s, 1, Len(s))

\* estimateRepetitionSavings: -1000 or 1000.  The tests on fractions are
\* stated on integers: singleUseKeys > keys.length * 0.5, and
\* totalKeyBytes / totalCount > 2, which is false for 0 / 0 (NaN).
estimateRepetitionSavings(v, keys) ==
  LET keyUsage == countKeys(v)
      totalKeyBytes ==
        SumSeq([i \in 1..Len(keyUsage) |->
                  keyUsage[i][2] * (1 + StringLength(keyUsage[i][1]))])
      singleUseKeys == Cardinality({i \in 1..Len(keyUsage) : keyUsage[i][2] = 1})
      totalCount == SumSeq([i \in 1..Len(keyUsage) |-> keyUsage[i][2]])
  IN IF 2 * singleUseKeys > Len(keys) THEN -1000
     ELSE IF totalCount > 0 /\ totalKeyBytes > 2 * totalCount THEN 1000
     ELSE -1000

\* the test of encodeValue that selects key-table mode
selectsKeyTable(v, options) ==
  /\ options.useStringTable
  /\ LET keys == collectKeys(v)
         headerSize == 10 + SumSeq([i \in 1..Len(keys) |-> StringLength(keys[i]) + 2])
     IN estimateRepetitionSavings(v, keys) > headerSize

encodeValue(v, options) ==
  IF selectsKeyTable(v, options)
    THEN LET keys == collectKeys(v)
         IN (IF options.includeHeader THEN MAGIC_NUMBER ELSE <<>>)
              \o writeStringTable(keys)
              \o writeValueWithKeyMap(v, KeyMapOf(keys))
    ELSE (IF options.includeHeader THEN writeHeader ELSE <<>>) \o writeValue(v)

----------------------------------------------------------------------------
(* decode/decoder.ts *)

NoTable == <<"null">>
TableOf(keys) == <<"table", keys>>
HasTable(kt) == kt[1] = "table"

\* readVarint: result |= (byte & 0x7F) << shift on JavaScript int32
RECURSIVE readVarintLoop(_, _, _, _)
readVarintLoop(b, off, acc, shift) ==
  LET r == readUint8(b, off)
  IN IF ~r.ok THEN r
     ELSE LET acc2 == Or32(acc, Shl32(r.val % 128, shift))
          IN IF r.val >= 128 THEN readVarintLoop(b, r.off, acc2, shift + 7)
             ELSE Ok(acc2, r.off)

readVarint(b, off) == readVarintLoop(b, off, 0, 0)

RECURSIVE readStringTableKeys(_, _, _, _)
readStringTableKeys(b, off, n, keys) ==
  IF n <= 0 THEN Ok(keys, off)
  ELSE LET len == readVarint(b, off)
       IN IF ~len.ok THEN len
          ELSE LET bytes == readBytes(b, len.off, len.val)
               IN IF ~bytes.ok THEN bytes
                  ELSE readStringTableKeys(b, bytes.off, n - 1,
                                           Append(keys, textDecoder_decode(bytes.val)))

\* readStringTable: the version byte is read and not examined
readStringTable(b, off) ==
  LET version == readUint8(b, off)
  IN IF ~version.ok THEN version
     ELSE LET keyCount == readVarint(b, version.off)
          IN IF ~keyCount.ok THEN keyCount
             ELSE readStringTableKeys(b, keyCount.off, keyCount.val, <<>>)

\* reader.offset at the head of each iteration of the loop of readStringTable
\* over the keys, and where the loop leaves it
RECURSIVE stringTableOffsets(_, _, _)
stringTableOffsets(b, off, n) ==
  IF n <= 0 THEN <<off>>
  ELSE LET len == readVarint(b, off)
       IN IF ~len.ok THEN <<off>>
          ELSE LET bytes == readBytes(b, len.off, len.val)
               IN IF ~bytes.ok THEN <<off>>
                  ELSE <<off>> \o stringTableOffsets(b, bytes.off, n - 1)

\* "__proto__", the name of the accessor that an object literal inherits
PROTO_KEY == <<95, 95, 112, 114, 111, 116, 111, 95, 95>>

\* result[key] = value on a JavaScript object made by {}: an existing
\* property keeps its place and takes the new value, a new one is added
\* last; for the key "__proto__" the assignment runs the inherited setter
\* and the object gets no property of its own
ObjSet(entries, key, v) ==
  IF key = PROTO_KEY THEN entries
  ELSE IF \E i \in 1..Len(entries) : entries[i][1] = key
    THEN [i \in 1..Len(entries) |-> IF entries[i][1] = key THEN <<key, v>> ELSE entries[i]]
    ELSE Append(entries, <<key, v>>)

\* String(undefined), the property name that keyTable[keyIndex] gives for an
\* index below zero
UNDEFINED_KEY == <<117, 110, 100, 101, 102, 105, 110, 101, 100>>

\* Number(bigint) of an 8-byte two's complement payload: an integer of the
\* model when the upper bytes only extend the sign of the lower four
NumberOfInt64(p) ==
  IF p[1] = 0 /\ p[2] = 0 /\ p[3] = 0 /\ p[4] = 0 /\ p[5] < 128
    THEN <<"int", p[5] * 16777216 + p[6] * 65536 + p[7] * 256 + p[8]>>
  ELSE IF p[1] = 255 /\ p[2] = 255 /\ p[3] = 255 /\ p[4] = 255 /\ p[5] >= 128
    THEN <<"int", (p[5] - 256) * 16777216 + p[6] * 65536 + p[7] * 256 + p[8]>>
  ELSE <<"big", p>>

readString(b, off, tag) ==
  IF tag = TAG_STRING_EMPTY THEN Ok(<<"str", <<>> >>, off)
  ELSE LET length == IF tag = TAG_STRING_SHORT THEN readUint8(b, off)
                     ELSE IF tag = TAG_STRING_MEDIUM THEN readUint16(b, off)
                     ELSE readUint32(b, off)
       IN IF ~length.ok THEN length
          ELSE LET bytes == readBytes(b, length.off, length.val)
               IN IF ~bytes.ok THEN bytes
                  ELSE Ok(<<"str", textDecoder_decode(bytes.val)>>, bytes.off)

\* readKeyString: the band test on the first byte comes before the tests for
\* the markers 254 and 255
readKeyString(b, off) ==
  LET first == readUint8(b, off)
  IN IF ~first.ok THEN first
     ELSE IF first.val >= COMMON_KEY_MIN /\ first.val <= COMMON_KEY_MAX
       THEN Ok(COMMON_KEYS[first.val - COMMON_KEY_MIN + 1], first.off)
     ELSE LET length == IF first.val = 254 THEN readUint16(b, first.off)
                        ELSE IF first.val = 255 THEN readUint32(b, first.off)
                        ELSE Ok(first.val, first.off)
          IN IF ~length.ok THEN length
             ELSE LET bytes == readBytes(b, length.off, length.val)
                  IN IF ~bytes.ok THEN bytes
                     ELSE Ok(textDecoder_decode(bytes.val), bytes.off)

\* the count of an array or object from its tag
readCount(b, off, tag, tagEmpty, tagShort, tagMedium) ==
  IF tag = tagEmpty THEN Ok(0, off)
  ELSE IF tag = tagShort THEN readUint8(b, off)
  ELSE IF tag = tagMedium THEN readUint16(b, off)
  ELSE readUint32(b, off)

IsStringTag(tag) == tag \in {TAG_STRING_EMPTY, TAG_STRING_SHORT, TAG_STRING_MEDIUM, TAG_STRING_LONG}
IsArrayTag(tag) == tag \in {TAG_ARRAY_EMPTY, TAG_ARRAY_SHORT, TAG_ARRAY_MEDIUM, TAG_ARRAY_LONG}
IsObjectTag(tag) == tag \in {TAG_OBJECT_EMPTY, TAG_OBJECT_SHORT, TAG_OBJECT_MEDIUM, TAG_OBJECT_LONG}

\* readTableKey that also takes a common-dictionary byte in key position
readTableKey_forms(b, off, keys) ==
  LET first == readUint8(b, off)
  IN IF first.ok /\ first.val >= COMMON_KEY_MIN /\ first.val <= COMMON_KEY_MAX
       THEN Ok(COMMON_KEYS[first.val - COMMON_KEY_MIN + 1], first.off)
     ELSE LET keyIndex == readVarint(b, off)
          IN IF ~keyIndex.ok THEN keyIndex
             ELSE IF keyIndex.val >= Len(keys) THEN Fail("InvalidKeyIndex", keyIndex.off)
             ELSE IF keyIndex.val < 0 THEN Ok(UNDEFINED_KEY, keyIndex.off)
             ELSE Ok(keys[keyIndex.val + 1], keyIndex.off)

\* the key of one object entry in key-table mode (readObjectWithKeyTable):
\* always a varint index, refused when keyIndex >= keyTable.length
readTableKey(b, off, keys) ==
  LET keyIndex == readVarint(b, off)
  IN IF ~keyIndex.ok THEN keyIndex
     ELSE IF keyIndex.val >= Len(keys) THEN Fail("InvalidKeyIndex", keyIndex.off)
     ELSE IF keyIndex.val < 0 THEN Ok(UNDEFINED_KEY, keyIndex.off)
     ELSE Ok(keys[keyIndex.val + 1], keyIndex.off)

\* a fixed-width number, string or literal, by its tag (common to readValue,
\* readValueWithKeyTable and streamValue)
IsPrimitiveTag(tag) ==
  \/ tag \in {TAG_NULL, TAG_FALSE, TAG_TRUE, TAG_INT8, TAG_INT16, TAG_INT32, TAG_INT64,
              TAG_UINT8, TAG_UINT16, TAG_UINT32, TAG_FLOAT32, TAG_FLOAT64}
  \/ IsStringTag(tag)

Wrap(kind, r) == IF r.ok THEN Ok(<<kind, r.val>>, r.off) ELSE r

readPrimitive(b, off, tag) ==
  CASE tag = TAG_NULL -> Ok(<<"null">>, off)
    [] tag = TAG_FALSE -> Ok(<<"bool", FALSE>>, off)
    [] tag = TAG_TRUE -> Ok(<<"bool", TRUE>>, off)
    [] tag = TAG_INT8 -> Wrap("int", readInt8(b, off))
    [] tag = TAG_INT16 -> Wrap("int", readInt16(b, off))
    [] tag = TAG_INT32 -> Wrap("int", readInt32(b, off))
    [] tag = TAG_INT64 ->
         LET p == readBytes(b, off, 8)
         IN IF p.ok THEN Ok(NumberOfInt64(p.val), p.off) ELSE p
    [] tag = TAG_UINT8 -> Wrap("int", readUint8(b, off))
    [] tag = TAG_UINT16 -> Wrap("int", readUint16(b, off))
    [] tag = TAG_UINT32 ->
         LET p == readBytes(b, off, 4)
         IN IF p.ok THEN Ok(NumberOfInt64(<<0, 0, 0, 0>> \o p.val), p.off) ELSE p
    [] tag = TAG_FLOAT32 -> Wrap("float32", readBytes(b, off, 4))
    [] tag = TAG_FLOAT64 -> Wrap("float64", readBytes(b, off, 8))
    [] OTHER -> readString(b, off, tag)

RECURSIVE readValueCore(_, _, _)
RECURSIVE readArrayItems(_, _, _, _, _)
RECURSIVE readObjectEntries(_, _, _, _, _)

\* the loop of readArray / readArrayWithKeyTable
readArrayItems(b, off, n, acc, kt) ==
  IF n <= 0 THEN Ok(<<"arr", acc>>, off)
  ELSE LET item == readValueCore(b, off, kt)
       IN IF ~item.ok THEN item
          ELSE readArrayItems(b, item.off, n - 1, Append(acc, item.val), kt)

\* the loop of readObject / readObjectWithKeyTable
readObjectEntries(b, off, n, acc, kt) ==
  IF n <= 0 THEN Ok(<<"obj", acc>>, off)
  ELSE LET key == IF HasTable(kt) THEN readTableKey(b, off, kt[2]) ELSE readKeyString(b, off)
       IN IF ~key.ok THEN key
          ELSE LET v == readValueCore(b, key.off, kt)
               IN IF ~v.ok THEN v
                  ELSE readObjectEntries(b, v.off, n - 1, ObjSet(acc, key.val, v.val), kt)

\* readValue (kt = NoTable) and readValueWithKeyTable (kt a key table)
readValueCore(b, off, kt) ==
  LET tag == readUint8(b, off)
  IN IF ~tag.ok THEN tag
     ELSE IF IsPrimitiveTag(tag.val) THEN readPrimitive(b, tag.off, tag.val)
     ELSE IF IsArrayTag(tag.val) THEN
       LET length == readCount(b, tag.off, tag.val,
                               TAG_ARRAY_EMPTY, TAG_ARRAY_SHORT, TAG_ARRAY_MEDIUM)
       IN IF ~length.ok THEN length
          ELSE readArrayItems(b, length.off, length.val, <<>>, kt)
     ELSE IF IsObjectTag(tag.val) THEN
       LET keyCount == readCount(b, tag.off, tag.val,
                                 TAG_OBJECT_EMPTY, TAG_OBJECT_SHORT, TAG_OBJECT_MEDIUM)
       IN IF ~keyCount.ok THEN keyCount
          ELSE readObjectEntries(b, keyCount.off, keyCount.val, <<>>, kt)
     ELSE Fail("UnknownTag", tag.off)

readValue(b, off) == readValueCore(b, off, NoTable)

readValueWithKeyTable(b, off, keyTable) == readValueCore(b, off, TableOf(keyTable))

\* decodeValue's key-table branch: readStringTable, then the value
decodeWithStringTable(b, off) ==
  LET keyTable == readStringTable(b, off)
  IN IF ~keyTable.ok THEN keyTable
     ELSE readValueWithKeyTable(b, keyTable.off, keyTable.val)

\* resolveDecodeOptions: expectHeader and strict, each true when left out
resolveDecodeOptions(expectHeader, strict) ==
  [expectHeader |-> expectHeader, strict |-> strict]

\* decodeValue that refuses, when strict, the bytes that follow the root value
decodeValue_strict(b, options) ==
  LET r ==
      IF options.expectHeader THEN
        LET firstByte == readUint8(b, 0)
        IN IF ~firstByte.ok THEN firstByte
           ELSE IF firstByte.val = MAGIC_NUMBER[1] THEN
             LET m1 == readUint8(b, 1)
                 m2 == readUint8(b, 2)
                 m3 == readUint8(b, 3)
             IN IF ~m1.ok THEN m1 ELSE IF ~m2.ok THEN m2 ELSE IF ~m3.ok THEN m3
                ELSE IF m1.val # MAGIC_NUMBER[2] \/ m2.val # MAGIC_NUMBER[3]
                          \/ m3.val # MAGIC_NUMBER[4]
                  THEN Fail("InvalidMagic", 4)
                ELSE LET versionOrTag == readUint8(b, 4)
                     IN IF ~versionOrTag.ok THEN versionOrTag
                        ELSE IF versionOrTag.val = TAG_HEADER_WITH_STRING_TABLE
                          THEN decodeWithStringTable(b, 5)
                        ELSE IF versionOrTag.val > FORMAT_VERSION
                          THEN Fail("UnsupportedVersion", 5)
                        ELSE readValue(b, 5)
           ELSE IF firstByte.val = TAG_HEADER_WITH_STRING_TABLE
             THEN decodeWithStringTable(b, 1)
           ELSE Fail("InvalidHeader", 1)
      ELSE readValue(b, 0)
  IN IF options.strict /\ r.ok /\ r.off < Len(b) THEN Fail("SyntaxError", r.off) ELSE r

decodeValue(b, options) ==
  IF options.expectHeader THEN
    LET firstByte == readUint8(b, 0)
    IN IF ~firstByte.ok THEN firstByte
       ELSE IF firstByte.val = MAGIC_NUMBER[1] THEN
         LET m1 == readUint8(b, 1)
             m2 == readUint8(b, 2)
             m3 == readUint8(b, 3)
         IN IF ~m1.ok THEN m1 ELSE IF ~m2.ok THEN m2 ELSE IF ~m3.ok THEN m3
            ELSE IF m1.val # MAGIC_NUMBER[2] \/ m2.val # MAGIC_NUMBER[3]
                      \/ m3.val # MAGIC_NUMBER[4]
              THEN Fail("InvalidMagic", 4)
            ELSE LET versionOrTag == readUint8(b, 4)
                 IN IF ~versionOrTag.ok THEN versionOrTag
                    ELSE IF versionOrTag.val = TAG_HEADER_WITH_STRING_TABLE
                      THEN decodeWithStringTable(b, 5)
                    ELSE IF versionOrTag.val > FORMAT_VERSION
                      THEN Fail("UnsupportedVersion", 5)
                    ELSE readValue(b, 5)
       ELSE IF firstByte.val = TAG_HEADER_WITH_STRING_TABLE
         THEN decodeWithStringTable(b, 1)
       ELSE Fail("InvalidHeader", 1)
  ELSE readValue(b, 0)

----------------------------------------------------------------------------
(* decode/stream.ts: the generators as a resumable machine.  A suspended   *)
(* streamValue call is a frame: <<"root">> (the call decodeStreamSync has  *)
(* still to make), <<"arr", n>> (n items left in the loop) or              *)
(* <<"obj", n, phase>> (n entries left, about to read the "key" or to      *)
(* stream the "value").  One resumption runs to the next yield, to the     *)
(* return of the outermost generator, or to a throw.                       *)

\* a yield whose start events announce one element more than the loop reads
Yield_oneMore(ev, off, stack) ==
  [status |-> "running", err |-> "none",
   events |-> <<IF ev[1] \in {"startArray", "startObject"} THEN <<ev[1], ev[2] + 1>> ELSE ev>>,
   off |-> off, stack |-> stack]

Yield(ev, off, stack) == [status |-> "running", err |-> "none", events |-> <<ev>>, off |-> off, stack |-> stack]
\* a generator that ends by throwing where it is to return
Return_throw(off) ==
  [status |-> "threw", err |-> "Error", events |-> <<>>, off |-> off, stack |-> <<>>]

Return(off) == [status |-> "returned", err |-> "none", events |-> <<>>, off |-> off, stack |-> <<>>]
Throw(e, off, stack) == [status |-> "threw", err |-> e, events |-> <<>>, off |-> off, stack |-> stack]

\* readHeaderEvents up to its yield: the event, the key table it will return
\* (NoTable for null) and the offset, or the error it throws
readHeaderEvents(b) ==
  LET magic == readBytes(b, 0, 4)
  IN IF ~magic.ok THEN magic
     ELSE IF magic.val # MAGIC_NUMBER THEN Fail("InvalidMagic", magic.off)
     ELSE LET firstByte == readUint8(b, magic.off)
          IN IF ~firstByte.ok THEN firstByte
             ELSE IF firstByte.val = TAG_HEADER_WITH_STRING_TABLE THEN
               LET version == readUint8(b, firstByte.off)
               IN IF ~version.ok THEN version
                  ELSE IF version.val > FORMAT_VERSION
                    THEN Fail("UnsupportedVersion", version.off)
                  ELSE LET keyCount == readVarint(b, version.off)
                       IN IF ~keyCount.ok THEN keyCount
                          ELSE LET keys == readStringTableKeys(b, keyCount.off,
                                                               keyCount.val, <<>>)
                               IN IF ~keys.ok THEN keys
                                  ELSE Ok([event |-> <<"header", version.val>>,
                                           keyTable |-> TableOf(keys.val)], keys.off)
             ELSE IF firstByte.val > FORMAT_VERSION
               THEN Fail("UnsupportedVersion", firstByte.off)
             ELSE Ok([event |-> <<"header", firstByte.val>>, keyTable |-> NoTable],
                     firstByte.off)

\* streamKey that hands out the first table entry whatever index it read
streamKey_first(b, off, kt) ==
  IF HasTable(kt) THEN
    LET keyIndex == readVarint(b, off)
    IN IF ~keyIndex.ok THEN keyIndex
       ELSE IF keyIndex.val < 0 \/ keyIndex.val >= Len(kt[2])
         THEN Fail("InvalidKeyIndex", keyIndex.off)
       ELSE Ok(kt[2][1], keyIndex.off)
  ELSE readKeyString(b, off)

\* the key of one object entry in streamValue: keyTable[keyIndex] with the
\* test key === undefined, or readKeyString when there is no table
streamKey(b, off, kt) ==
  IF HasTable(kt) THEN
    LET keyIndex == readVarint(b, off)
    IN IF ~keyIndex.ok THEN keyIndex
       ELSE IF keyIndex.val < 0 \/ keyIndex.val >= Len(kt[2])
         THEN Fail("InvalidKeyIndex", keyIndex.off)
       ELSE Ok(kt[2][keyIndex.val + 1], keyIndex.off)
  ELSE readKeyString(b, off)

\* streamValue from its first statement to its first yield (or throw); `below`
\* holds the frames of the suspended callers
streamValue(b, off, kt, below) ==
  LET tag == readUint8(b, off)
  IN IF ~tag.ok THEN Throw(tag.err, tag.off, below)
     ELSE IF IsPrimitiveTag(tag.val) THEN
       LET p == readPrimitive(b, tag.off, tag.val)
       IN IF ~p.ok THEN Throw(p.err, p.off, below)
          ELSE Yield(<<"primitive", p.val>>, p.off, below)
     ELSE IF IsArrayTag(tag.val) THEN
       LET length == readCount(b, tag.off, tag.val,
                               TAG_ARRAY_EMPTY, TAG_ARRAY_SHORT, TAG_ARRAY_MEDIUM)
       IN IF ~length.ok THEN Throw(length.err, length.off, below)
          ELSE Yield(<<"startArray", length.val>>, length.off,
                     Append(below, <<"arr", length.val>>))
     ELSE IF IsObjectTag(tag.val) THEN
       LET keyCount == readCount(b, tag.off, tag.val,
                                 TAG_OBJECT_EMPTY, TAG_OBJECT_SHORT, TAG_OBJECT_MEDIUM)
       IN IF ~keyCount.ok THEN Throw(keyCount.err, keyCount.off, below)
          ELSE Yield(<<"startObject", keyCount.val>>, keyCount.off,
                     Append(below, <<"obj", keyCount.val, "key">>))
     ELSE Throw("UnknownTag", tag.off, below)

\* streamResume that closes an array with endObject and an object with endArray
streamResume_swapped(b, off, kt, stack) ==
  IF stack = <<>> THEN Return(off)
  ELSE
    LET top == stack[Len(stack)]
        below == SubSeq(stack, 1, Len(stack) - 1)
    IN CASE top[1] = "root" -> streamValue(b, off, kt, below)
         [] top[1] = "arr" ->
              IF top[2] > 0
                THEN streamValue(b, off, kt, Append(below, <<"arr", top[2] - 1>>))
                ELSE Yield(<<"endObject">>, off, below)
         [] top[1] = "obj" /\ top[3] = "key" ->
              IF top[2] > 0
                THEN LET key == streamKey(b, off, kt)
                     IN IF ~key.ok THEN Throw(key.err, key.off, stack)
                        ELSE Yield(<<"key", key.val>>, key.off,
                                   Append(below, <<"obj", top[2], "value">>))
                ELSE Yield(<<"endArray">>, off, below)
         [] top[1] = "obj" /\ top[3] = "value" ->
              streamValue(b, off, kt, Append(below, <<"obj", top[2] - 1, "key">>))

\* one resumption of the generator stack
streamResume(b, off, kt, stack) ==
  IF stack = <<>> THEN Return(off)
  ELSE
    LET top == stack[Len(stack)]
        below == SubSeq(stack, 1, Len(stack) - 1)
    IN CASE top[1] = "root" -> streamValue(b, off, kt, below)
         [] top[1] = "arr" ->
              IF top[2] > 0
                THEN streamValue(b, off, kt, Append(below, <<"arr", top[2] - 1>>))
                ELSE Yield(<<"endArray">>, off, below)
         [] top[1] = "obj" /\ top[3] = "key" ->
              IF top[2] > 0
                THEN LET key == streamKey(b, off, kt)
                     IN IF ~key.ok THEN Throw(key.err, key.off, stack)
                        ELSE Yield(<<"key", key.val>>, key.off,
                                   Append(below, <<"obj", top[2], "value">>))
                ELSE Yield(<<"endObject">>, off, below)
         [] top[1] = "obj" /\ top[3] = "value" ->
              streamValue(b, off, kt, Append(below, <<"obj", top[2] - 1, "key">>))

----------------------------------------------------------------------------
(* writeNumber on the numbers outside the model's integers: an IEEE 754    *)
(* double (-1)^neg * m * 2^e with m odd, 0 < m < 2^31, within the normal   *)
(* range of doubles.                                                       *)

JNum(neg, m, e) == <<"num", neg, m, e>>

RECURSIVE BitLength(_)
BitLength(m) == IF m = 0 THEN 0 ELSE 1 + BitLength(m \div 2)

\* bit i of m, 0 for the positions m does not have
BitOf(m, i) == IF i < 0 \/ i > 30 THEN 0 ELSE (m \div Pow2(i)) % 2

\* Number.isInteger(value)
IsInteger(x) == x[4] >= 0

\* Number.isSafeInteger(value): |value| <= 2^53 - 1
IsSafeInteger(x) == IsInteger(x) /\ BitLength(x[3]) + x[4] <= 53

\* value is one of the model's integers, INT32_MIN..INT32_MAX
FitsInt32(x) ==
  IsInteger(x) /\ (BitLength(x[3]) + x[4] <= 31 \/ (x[2] /\ x[3] = 1 /\ x[4] = 31))

Int32Of(x) ==
  IF x[2] /\ x[3] = 1 /\ x[4] = 31 THEN INT32_MIN
  ELSE (IF x[2] THEN -1 ELSE 1) * x[3] * Pow2(x[4])

\* -2^63 <= value <= 2^63 - 1
FitsInt64(x) ==
  IsInteger(x) /\ (BitLength(x[3]) + x[4] <= 63 \/ (x[2] /\ x[3] = 1 /\ x[4] = 63))

\* the bytes, most significant first, of bits numbered from the least
\* significant (big-endian DataView writes)
BytesOf(bits, n) ==
  [k \in 1..n |->
     LET base == 8 * (n - k)
     IN bits[base] + 2 * bits[base + 1] + 4 * bits[base + 2] + 8 * bits[base + 3]
          + 16 * bits[base + 4] + 32 * bits[base + 5] + 64 * bits[base + 6]
          + 128 * bits[base + 7]]

\* view.setUint32(offset, value, false) for 0 <= value < 2^32
setUint32(x) == BytesOf([i \in 0..31 |-> BitOf(x[3], i - x[4])], 4)

\* view.setBigInt64(offset, BigInt(Math.trunc(value)), false): the low 64
\* bits of the integer in two's complement (BigInt.asIntN(64, ...)); the
\* lowest set bit of m * 2^e is bit e
setBigInt64(x) ==
  BytesOf([i \in 0..63 |->
             IF ~x[2] THEN BitOf(x[3], i - x[4])
             ELSE IF i < x[4] THEN 0
             ELSE IF i = x[4] THEN 1
             ELSE 1 - BitOf(x[3], i - x[4])], 8)

\* the exponent of the leading bit
Exponent(x) == BitLength(x[3]) - 1 + x[4]

\* Math.fround(value) === value: 24 bits of significand suffice and the
\* exponent is one of a normal float32
FroundKeeps(x) == BitLength(x[3]) <= 24 /\ Exponent(x) >= -126 /\ Exponent(x) <= 127

\* view.setFloat32(offset, value, false) where fround keeps the value
setFloat32(x) ==
  BytesOf([i \in 0..31 |->
             IF i = 31 THEN (IF x[2] THEN 1 ELSE 0)
             ELSE IF i >= 23 THEN ((Exponent(x) + 127) \div Pow2(i - 23)) % 2
             ELSE BitOf(x[3], i - 23 + BitLength(x[3]) - 1)], 4)

\* view.setFloat64(offset, value, false)
setFloat64(x) ==
  BytesOf([i \in 0..63 |->
             IF i = 63 THEN (IF x[2] THEN 1 ELSE 0)
             ELSE IF i >= 52 THEN ((Exponent(x) + 1023) \div Pow2(i - 52)) % 2
             ELSE BitOf(x[3], i - 52 + BitLength(x[3]) - 1)], 8)

\* writeNumber(buf, value) for such a number; the integers of the model
\* take the branches of writeNumber above
writeNumberValue(x) ==
  IF IsInteger(x) THEN
    IF FitsInt32(x) THEN writeNumber(Int32Of(x))
    ELSE IF ~x[2] /\ BitLength(x[3]) + x[4] <= 32 THEN <<TAG_UINT32>> \o setUint32(x)
    ELSE <<TAG_INT64>> \o setBigInt64(x)
  ELSE IF FroundKeeps(x) THEN <<TAG_FLOAT32>> \o setFloat32(x)
  ELSE <<TAG_FLOAT64>> \o setFloat64(x)

----------------------------------------------------------------------------
(* shared/buffer.ts, BOON v2: encode and decode *)

V2_TAG_NULL == 0
V2_TAG_FALSE == 1
V2_TAG_TRUE == 2
V2_TAG_INT == 16
V2_TAG_FLOAT64 == 17
V2_TAG_STRING == 32
V2_TAG_STRING_EMPTY == 33
V2_TAG_ARRAY == 48
V2_TAG_ARRAY_EMPTY == 49
V2_TAG_ARRAY_INDEF == 63
V2_TAG_OBJECT == 64
V2_TAG_OBJECT_EMPTY == 65
V2_TAG_OBJECT_INDEF == 79
V2_TAG_BREAK == 255
V2_MAGIC == <<66, 79, 79, 78>>
V2_VERSION == 1

\* encodeVarint(value, out) for value >= 0: 7-bit groups, least significant
\* first, the high bit set on every byte but the last
RECURSIVE encodeVarint(_)
encodeVarint(n) ==
  IF n \div 128 = 0 THEN <<n % 128>>
  ELSE <<(n % 128) + 128>> \o encodeVarint(n \div 128)

\* a signed varint that doubles the magnitude and keeps the sign apart
encodeZigzagVarint_magnitude(n) ==
  LET k == IF n >= 0 THEN n ELSE -(n + 1)
  IN IF k \div 64 = 0 THEN <<2 * (k % 64)>>
     ELSE <<2 * (k % 64) + 128>> \o encodeVarint(k \div 64)

\* encodeZigzagVarint(value, out): the varint of zigzag = 2 * value for
\* value >= 0 and of -2 * value - 1 otherwise.  The groups are taken from
\* value itself (zigzag % 128 and zigzag \div 128 in terms of value), which
\* keeps every intermediate number within the model's integers.
encodeZigzagVarint(n) ==
  LET k == IF n >= 0 THEN n ELSE -(n + 1)
      low == 2 * (k % 64) + (IF n >= 0 THEN 0 ELSE 1)
      rest == k \div 64
  IN IF rest = 0 THEN <<low>> ELSE <<low + 128>> \o encodeVarint(rest)

\* the bits, least significant first, of zigzag = value * 2 for a number
\* x = m * 2^e and of zigzag = -value * 2 - 1 = 2 * (|value| - 1) + 1 for
\* x = -(m * 2^e); |value| - 1 = (m - 1) * 2^e + (2^e - 1)
ZigzagBits(x) ==
  [i \in 0..69 |->
     IF ~x[2] THEN BitOf(x[3], i - x[4] - 1)
     ELSE IF i = 0 THEN 1
     ELSE IF i - 1 < x[4] THEN 1
     ELSE BitOf(x[3] - 1, i - 1 - x[4])]

\* the loop of encodeVarint on the bits of n: 7 bits to a byte up to the
\* highest bit set, the high bit on every byte but the last
VarintOfBits(bits) ==
  LET top == CHOOSE i \in DOMAIN bits :
               bits[i] = 1 /\ \A j \in DOMAIN bits : j > i => bits[j] = 0
      count == top \div 7 + 1
  IN [k \in 1..count |->
        LET base == 7 * (k - 1)
        IN bits[base] + 2 * bits[base + 1] + 4 * bits[base + 2] + 8 * bits[base + 3]
             + 16 * bits[base + 4] + 32 * bits[base + 5] + 64 * bits[base + 6]
             + (IF k < count THEN 128 ELSE 0)]

\* encodeFloat64(value, out): setFloat64 little-endian
encodeFloat64(x) == LET be == setFloat64(x) IN [i \in 1..8 |-> be[9 - i]]

\* the number branch of encodeValue for a number outside the model's
\* integers: Number.isInteger(value) && Math.abs(value) <= 2 ** 52
v2_encodeNumber(x) ==
  IF IsInteger(x) /\ (BitLength(x[3]) + x[4] <= 52 \/ (x[3] = 1 /\ x[4] = 52))
    THEN <<V2_TAG_INT>> \o VarintOfBits(ZigzagBits(x))
    ELSE <<V2_TAG_FLOAT64>> \o encodeFloat64(x)

RECURSIVE v2_encodeValue(_)
RECURSIVE v2_encodeItems(_, _)
RECURSIVE v2_encodeEntries(_, _)

v2_encodeItems(items, i) ==
  IF i > Len(items) THEN <<>>
  ELSE v2_encodeValue(items[i]) \o v2_encodeItems(items, i + 1)

v2_encodeEntries(entries, i) ==
  IF i > Len(entries) THEN <<>>
  ELSE LET keyBytes == textEncoder_encode(entries[i][1])
       IN encodeVarint(Len(keyBytes)) \o keyBytes \o v2_encodeValue(entries[i][2])
            \o v2_encodeEntries(entries, i + 1)

\* encodeValue(value, out) of v2; every integer of the model is within
\* MAX_ZIGZAG_SAFE = 2^52
v2_encodeValue(v) ==
  CASE Kind(v) = "null" -> <<V2_TAG_NULL>>
    [] Kind(v) = "bool" -> IF v[2] THEN <<V2_TAG_TRUE>> ELSE <<V2_TAG_FALSE>>
    [] Kind(v) = "int" -> <<V2_TAG_INT>> \o encodeZigzagVarint(v[2])
    [] Kind(v) = "num" -> v2_encodeNumber(v)
    [] Kind(v) = "str" ->
         IF StringLength(v[2]) = 0 THEN <<V2_TAG_STRING_EMPTY>>
         ELSE LET bytes == textEncoder_encode(v[2])
              IN <<V2_TAG_STRING>> \o encodeVarint(Len(bytes)) \o bytes
    [] Kind(v) = "arr" ->
         IF Len(v[2]) = 0 THEN <<V2_TAG_ARRAY_EMPTY>>
         ELSE <<V2_TAG_ARRAY>> \o encodeVarint(Len(v[2])) \o v2_encodeItems(v[2], 1)
    [] Kind(v) = "obj" ->
         IF Len(v[2]) = 0 THEN <<V2_TAG_OBJECT_EMPTY>>
         ELSE <<V2_TAG_OBJECT>> \o encodeVarint(Len(v[2])) \o v2_encodeEntries(v[2], 1)

\* the indefinite-length layout of the same value: every array as 0x3F, its
\* members, 0xFF, and every object as 0x4F, its entries, 0xFF
RECURSIVE v2_indefiniteValue(_)
RECURSIVE v2_indefiniteItems(_, _)
RECURSIVE v2_indefiniteEntries(_, _)

v2_indefiniteItems(items, i) ==
  IF i > Len(items) THEN <<>>
  ELSE v2_indefiniteValue(items[i]) \o v2_indefiniteItems(items, i + 1)

v2_indefiniteEntries(entries, i) ==
  IF i > Len(entries) THEN <<>>
  ELSE LET keyBytes == textEncoder_encode(entries[i][1])
       IN encodeVarint(Len(keyBytes)) \o keyBytes \o v2_indefiniteValue(entries[i][2])
            \o v2_indefiniteEntries(entries, i + 1)

v2_indefiniteValue(v) ==
  CASE Kind(v) = "arr" ->
         <<V2_TAG_ARRAY_INDEF>> \o v2_indefiniteItems(v[2], 1) \o <<V2_TAG_BREAK>>
    [] Kind(v) = "obj" ->
         <<V2_TAG_OBJECT_INDEF>> \o v2_indefiniteEntries(v[2], 1) \o <<V2_TAG_BREAK>>
    [] OTHER -> v2_encodeValue(v)

v2_encode(v) == V2_MAGIC \o <<V2_VERSION>> \o v2_encodeValue(v)

\* The loop of readVarint: the 7-bit groups read up to the byte without the
\* high bit.  shift counts the groups already read times 7.
RECURSIVE v2_readVarintGroups(_, _, _, _)
v2_readVarintGroups(b, pos, groups, shift) ==
  IF pos >= Len(b) THEN Fail("TruncatedDataError", pos)
  ELSE LET byte == b[pos + 1]
           next == Append(groups, byte % 128)
       IN IF byte < 128 THEN Ok(next, pos + 1)
          ELSE IF shift + 7 > 63 THEN Fail("Error", pos + 1)
          ELSE v2_readVarintGroups(b, pos + 1, next, shift + 7)

\* the groups hold a number below 2^31
FitsModel(groups) ==
  /\ \A i \in 6..Len(groups) : groups[i] = 0
  /\ Len(groups) >= 5 => groups[5] < 8

RECURSIVE NumberOfGroups(_, _)
NumberOfGroups(groups, i) ==
  IF i > Len(groups) \/ i > 5 THEN 0
  ELSE groups[i] + 128 * NumberOfGroups(groups, i + 1)

\* readVarint(): Number(result).  A result of 2^31 or more reads as
\* INT32_MAX, which as a length or count exceeds every buffer of the model
\* just as the true value does.
v2_readVarint(b, pos) ==
  LET g == v2_readVarintGroups(b, pos, <<>>, 0)
  IN IF ~g.ok THEN g
     ELSE IF FitsModel(g.val) THEN Ok(NumberOfGroups(g.val, 1), g.off)
     ELSE Ok(INT32_MAX, g.off)

\* floor(n / 2) of the varint with these groups is below 2^31
HalfFitsModel(groups) ==
  /\ \A i \in 6..Len(groups) : groups[i] = 0
  /\ Len(groups) >= 5 => groups[5] < 16

\* bit i of the varint with these groups
GroupBit(groups, i) ==
  IF i \div 7 + 1 > Len(groups) THEN 0 ELSE (groups[i \div 7 + 1] \div Pow2(i % 7)) % 2

\* readZigzag() for a varint n of 2^32 or more, on the bits of n: half =
\* Math.floor(n / 2), and half or -(half + 1) by the low bit.  The result is
\* given as (-1)^neg * m * 2^e; a number whose set bits span more than 31
\* positions is kept as its groups.
ZigzagNumber(groups) ==
  LET odd == GroupBit(groups, 0) = 1
      half == [j \in 0..70 |-> GroupBit(groups, j + 1)]
      zero == CHOOSE j \in 0..70 : half[j] = 0 /\ \A k \in 0..(j - 1) : half[k] = 1
      mag == IF odd THEN [j \in 0..70 |-> IF j < zero THEN 0
                                          ELSE IF j = zero THEN 1 ELSE half[j]]
             ELSE half
      e == CHOOSE j \in 0..70 : mag[j] = 1 /\ \A k \in 0..(j - 1) : mag[k] = 0
  IN IF \E j \in 0..70 : j > e + 30 /\ mag[j] = 1 THEN <<"zigzag", groups>>
     ELSE JNum(odd, SumBits([j \in 0..30 |-> IF e + j <= 70 THEN mag[e + j] ELSE 0], 30), e)

\* readZigzag(): half = Math.floor(n / 2), and half or -(half + 1) by the
\* low bit (n & 1) of n
v2_readZigzag(b, pos) ==
  LET g == v2_readVarintGroups(b, pos, <<>>, 0)
  IN IF ~g.ok THEN g
     ELSE IF ~HalfFitsModel(g.val) THEN Ok(ZigzagNumber(g.val), g.off)
     ELSE LET half == (g.val[1] \div 2) + 64 * NumberOfGroups(g.val, 2)
          IN Ok(<<"int", IF g.val[1] % 2 = 0 THEN half ELSE (-half) - 1>>, g.off)

\* readFloat64(): the eight little-endian bytes, kept most significant first
v2_readFloat64(b, pos) ==
  IF pos + 8 > Len(b) THEN Fail("TruncatedDataError", pos)
  ELSE Ok(<<"float64", [i \in 1..8 |-> b[pos + 9 - i]]>>, pos + 8)

\* The WHATWG UTF-8 decoder in fatal mode accepts the bytes from i on: every
\* sequence is well formed (the same ranges as in Utf8DecodeFrom)
RECURSIVE Utf8ValidFrom(_, _)
Utf8ValidFrom(b, i) ==
  IF i > Len(b) THEN TRUE
  ELSE
    LET b0 == b[i]
        has(k) == i + k <= Len(b)
        lo2 == IF b0 = 224 THEN 160 ELSE IF b0 = 240 THEN 144 ELSE 128
        hi2 == IF b0 = 237 THEN 159 ELSE IF b0 = 244 THEN 143 ELSE 191
        ok2 == has(1) /\ b[i + 1] >= lo2 /\ b[i + 1] <= hi2
    IN
    IF b0 < 128 THEN Utf8ValidFrom(b, AsciiRunEnd(b, i))
    ELSE IF b0 >= 194 /\ b0 <= 223 THEN
      has(1) /\ IsCont(b[i + 1]) /\ Utf8ValidFrom(b, i + 2)
    ELSE IF b0 >= 224 /\ b0 <= 239 THEN
      ok2 /\ has(2) /\ IsCont(b[i + 2]) /\ Utf8ValidFrom(b, i + 3)
    ELSE IF b0 >= 240 /\ b0 <= 244 THEN
      ok2 /\ has(2) /\ IsCont(b[i + 2]) /\ has(3) /\ IsCont(b[i + 3])
        /\ Utf8ValidFrom(b, i + 4)
    ELSE FALSE

\* new TextDecoder('utf-8', { fatal: true }).decode(bytes): a TypeError on
\* ill-formed bytes, otherwise the string (a leading byte order mark dropped)
fatalDecoder_decode(bytes, pos) ==
  IF Utf8ValidFrom(bytes, 1) THEN Ok(textDecoder_decode(bytes), pos)
  ELSE Fail("TypeError", pos)

\* readString(length)
v2_readString(b, pos, length) ==
  IF length > Len(b) - pos THEN Fail("TruncatedDataError", pos)
  ELSE fatalDecoder_decode(SubSeq(b, pos + 1, pos + length), pos + length)

RECURSIVE v2_readValue(_, _)
RECURSIVE v2_readItems(_, _, _, _)
RECURSIVE v2_readItemsIndef(_, _, _)
RECURSIVE v2_readEntries(_, _, _, _)
RECURSIVE v2_readEntriesIndef(_, _, _)

\* one object entry: readVarint, readString, readValue
v2_readEntry(b, pos) ==
  LET keyLength == v2_readVarint(b, pos)
  IN IF ~keyLength.ok THEN keyLength
     ELSE LET key == v2_readString(b, keyLength.off, keyLength.val)
          IN IF ~key.ok THEN key
             ELSE LET val == v2_readValue(b, key.off)
                  IN IF ~val.ok THEN val
                     ELSE Ok(<<key.val, val.val>>, val.off)

\* a definite array that lets a break byte end it early
v2_readItems_break(b, pos, n, acc) ==
  IF n <= 0 THEN Ok(<<"arr", acc>>, pos)
  ELSE IF pos < Len(b) /\ b[pos + 1] = V2_TAG_BREAK THEN Ok(<<"arr", acc>>, pos + 1)
  ELSE LET item == v2_readValue(b, pos)
       IN IF ~item.ok THEN item
          ELSE v2_readItems(b, item.off, n - 1, Append(acc, item.val))

\* for (let i = 0; i < count; i++) arr.push(readValue())
v2_readItems(b, pos, n, acc) ==
  IF n <= 0 THEN Ok(<<"arr", acc>>, pos)
  ELSE LET item == v2_readValue(b, pos)
       IN IF ~item.ok THEN item
          ELSE v2_readItems(b, item.off, n - 1, Append(acc, item.val))

\* while (pos < data.length && data[pos] !== TAG.BREAK) arr.push(readValue())
v2_readItemsIndef(b, pos, acc) ==
  IF pos >= Len(b) THEN Fail("TruncatedDataError", pos)
  ELSE IF b[pos + 1] = V2_TAG_BREAK THEN Ok(<<"arr", acc>>, pos + 1)
  ELSE LET item == v2_readValue(b, pos)
       IN IF ~item.ok THEN item
          ELSE v2_readItemsIndef(b, item.off, Append(acc, item.val))

v2_readEntries(b, pos, n, acc) ==
  IF n <= 0 THEN Ok(<<"obj", acc>>, pos)
  ELSE LET entry == v2_readEntry(b, pos)
       IN IF ~entry.ok THEN entry
          ELSE v2_readEntries(b, entry.off, n - 1, ObjSet(acc, entry.val[1], entry.val[2]))

v2_readEntriesIndef(b, pos, acc) ==
  IF pos >= Len(b) THEN Fail("TruncatedDataError", pos)
  ELSE IF b[pos + 1] = V2_TAG_BREAK THEN Ok(<<"obj", acc>>, pos + 1)
  ELSE LET entry == v2_readEntry(b, pos)
       IN IF ~entry.ok THEN entry
          ELSE v2_readEntriesIndef(b, entry.off, ObjSet(acc, entry.val[1], entry.val[2]))

\* readValue() of the v2 decoder
v2_readValue(b, pos) ==
  IF pos >= Len(b) THEN Fail("TruncatedDataError", pos)
  ELSE
    LET tag == b[pos + 1]
        at == pos + 1
    IN CASE tag = V2_TAG_NULL -> Ok(<<"null">>, at)
         [] tag = V2_TAG_FALSE -> Ok(<<"bool", FALSE>>, at)
         [] tag = V2_TAG_TRUE -> Ok(<<"bool", TRUE>>, at)
         [] tag = V2_TAG_INT -> v2_readZigzag(b, at)
         [] tag = V2_TAG_FLOAT64 -> v2_readFloat64(b, at)
         [] tag = V2_TAG_STRING ->
              LET length == v2_readVarint(b, at)
              IN IF ~length.ok THEN length
                 ELSE Wrap("str", v2_readString(b, length.off, length.val))
         [] tag = V2_TAG_STRING_EMPTY -> Ok(<<"str", <<>> >>, at)
         [] tag = V2_TAG_ARRAY ->
              LET count == v2_readVarint(b, at)
              IN IF ~count.ok THEN count ELSE v2_readItems(b, count.off, count.val, <<>>)
         [] tag = V2_TAG_ARRAY_EMPTY -> Ok(<<"arr", <<>> >>, at)
         [] tag = V2_TAG_ARRAY_INDEF -> v2_readItemsIndef(b, at, <<>>)
         [] tag = V2_TAG_OBJECT ->
              LET count == v2_readVarint(b, at)
              IN IF ~count.ok THEN count ELSE v2_readEntries(b, count.off, count.val, <<>>)
         [] tag = V2_TAG_OBJECT_EMPTY -> Ok(<<"obj", <<>> >>, at)
         [] tag = V2_TAG_OBJECT_INDEF -> v2_readEntriesIndef(b, at, <<>>)
         [] tag = V2_TAG_BREAK -> Fail("UnexpectedBreakError", at)
         [] OTHER -> Fail("UnknownTagError", at)

\* decode(data) with an error of its own for the tags 0x50..0x7F
v2_decode_reserved(b) ==
  IF Len(b) < 5 \/ SubSeq(b, 1, 4) # V2_MAGIC THEN Fail("InvalidMagicError", 0)
  ELSE IF b[5] # V2_VERSION THEN Fail("UnsupportedVersionError", 0)
  ELSE LET r == v2_readValue(b, 5)
       IN IF ~r.ok /\ r.err = "UnknownTagError" /\ r.off \in 1..Len(b) /\ b[r.off] \in 80..127
            THEN Fail("ReservedTagError", r.off)
            ELSE r

\* decode(data) of v2
v2_decode(b) ==
  IF Len(b) < 5 \/ SubSeq(b, 1, 4) # V2_MAGIC THEN Fail("InvalidMagicError", 0)
  ELSE IF b[5] # V2_VERSION THEN Fail("UnsupportedVersionError", 0)
  ELSE v2_readValue(b, 5)

----------------------------------------------------------------------------
(* shared/buffer.ts: createGrowableBuffer, and the writers of the encoder
   that store into it.  A buffer is [buffer, offset, thrown]: the backing
   Uint8Array, the write offset, and whether a RangeError has ended the
   call that was writing. *)

Max(a, b) == IF a >= b THEN a ELSE b

Zeros(n) == [i \in 1..n |-> 0]

\* new Uint8Array(initialSize), offset 0
createGrowableBuffer(initialSize) ==
  [buffer |-> Zeros(initialSize), offset |-> 0, thrown |-> FALSE]

\* grow: a new array of max(2 * length, minCapacity) bytes, newBuffer.set(buffer)
grow(b, minCapacity) ==
  LET newSize == Max(Len(b.buffer) * 2, minCapacity)
  IN [b EXCEPT !.buffer = [i \in 1..newSize |->
                             IF i <= Len(b.buffer) THEN b.buffer[i] ELSE 0]]

\* ensureCapacity that compares the bytes needed with the capacity alone
ensureCapacity_noOffset(b, bytesNeeded) ==
  IF bytesNeeded > Len(b.buffer) THEN grow(b, bytesNeeded) ELSE b

ensureCapacity(b, bytesNeeded) ==
  IF b.offset + bytesNeeded > Len(b.buffer)
    THEN grow(b, b.offset + bytesNeeded)
    ELSE b

\* buffer.slice(0, offset)
getResult(b) == SubSeq(b.buffer, 1, Max(0, IF b.offset <= Len(b.buffer) THEN b.offset ELSE Len(b.buffer)))

\* buf.buffer[buf.offset++] = v: a store at an index that is not below the
\* length of a typed array is ignored
storeByte(b, v) ==
  IF b.thrown THEN b
  ELSE [b EXCEPT !.buffer = IF b.offset < Len(b.buffer)
                              THEN [b.buffer EXCEPT ![b.offset + 1] = v % 256]
                              ELSE b.buffer,
                 !.offset = b.offset + 1]

\* buf.buffer.set(bytes, buf.offset); buf.offset += bytes.length: set throws
\* a RangeError when the bytes do not fit
storeBytes(b, bytes) ==
  IF b.thrown THEN b
  ELSE IF b.offset + Len(bytes) > Len(b.buffer) THEN [b EXCEPT !.thrown = TRUE]
  ELSE [b EXCEPT !.buffer = [i \in 1..Len(b.buffer) |->
                               IF i > b.offset /\ i <= b.offset + Len(bytes)
                                 THEN bytes[i - b.offset] ELSE b.buffer[i]],
                 !.offset = b.offset + Len(bytes)]

RECURSIVE storeEach(_, _)
storeEach(b, bytes) ==
  IF bytes = <<>> THEN b ELSE storeEach(storeByte(b, Head(bytes)), Tail(bytes))

\* writeVarint(buf, value): ensureCapacity(k), then k indexed stores
buf_writeVarint(b, n) ==
  LET bytes == IF n < 128 THEN <<n>>
               ELSE IF n < 16384 THEN << (n % 128) + 128, n \div 128 >>
               ELSE IF n < 2097152
                 THEN << (n % 128) + 128, ((n \div 128) % 128) + 128, n \div 16384 >>
               ELSE << (n % 128) + 128, ((n \div 128) % 128) + 128,
                       ((n \div 16384) % 128) + 128, n \div 2097152 >>
  IN storeEach(ensureCapacity(b, Len(bytes)), bytes)

\* writeTag(buf, tag)
buf_writeTag(b, tag) == storeByte(ensureCapacity(b, 1), tag)

\* writeHeader(buf): ensureCapacity(5), the magic number, the version byte
buf_writeHeader(b) ==
  storeByte(storeBytes(ensureCapacity(b, 5), MAGIC_NUMBER), FORMAT_VERSION)

\* the loop of writeStringTable over the keys
RECURSIVE buf_writeKeys(_, _)
buf_writeKeys(b, keys) ==
  IF keys = <<>> THEN b
  ELSE LET bytes == textEncoder_encode(Head(keys))
           b1 == buf_writeVarint(b, Len(bytes))
       IN buf_writeKeys(storeBytes(ensureCapacity(b1, Len(bytes)), bytes), Tail(keys))

\* writeStringTable(buf, keys)
buf_writeStringTable(b, keys) ==
  LET b1 == buf_writeTag(b, TAG_HEADER_WITH_STRING_TABLE)
      b2 == storeByte(ensureCapacity(b1, 1), FORMAT_VERSION)
      b3 == buf_writeVarint(b2, Len(keys))
  IN buf_writeKeys(b3, keys)

----------------------------------------------------------------------------
(* The values handed to encode and the messages handed to the decoders *)

MaxArrayLen == 3      \* arrays and batches of 0..MaxArrayLen members
MaxDepth == 2         \* containers nested 1..MaxDepth deep around a leaf
BATCH_SIZE == 50      \* the batch of structurally identical records

JNull == <<"null">>
JBool(b) == <<"bool", b>>
JInt(n) == <<"int", n>>
JStr(s) == <<"str", s>>
JArr(items) == <<"arr", items>>
JObj(entries) == <<"obj", entries>>

\* the string of n copies of the code point c
Rep(c, n) == [i \in 1..n |-> c]

K_a == <<97>>
K_ab == <<97, 98>>
K_cd == <<99, 100>>
K_id == <<105, 100>>
K_name == <<110, 97, 109, 101>>
K_accent == <<233, 116, 233>>       \* "été": 3 code units, 5 bytes
K_127 == Rep(97, 127)
K_128 == Rep(97, 128)
K_255 == Rep(97, 255)              \* its length is written as the bytes FF 01 in v2
K_bom == <<BOM, 97>>                \* U+FEFF, then "a"

IntSamples ==
  {0, 1, -1, 30, 127, 128, -128, -129, 255, 256, 32767, 32768, -32768, -32769,
   65535, 65536, INT32_MAX, INT32_MIN}

StringSamples ==
  {<<>>, K_a, K_ab, K_accent, K_bom, <<8364>>, <<128512>>,
   Rep(97, MAX_SHORT_LENGTH), Rep(97, MAX_SHORT_LENGTH + 1)}

KeySamples == {<<>>, K_a, K_ab, K_id, K_name, K_accent, K_127, K_128, K_255, K_bom}

Primitives ==
  {JNull, JBool(TRUE), JBool(FALSE)} \cup {JInt(n) : n \in IntSamples}
    \cup {JStr(s) : s \in StringSamples}

Leaves == {JNull, JBool(TRUE), JInt(-129), JStr(K_ab)}

\* a record with the given keys, each holding the number i
Record(keys, i) == JObj([j \in 1..Len(keys) |-> <<keys[j], JInt(i)>>])

\* n structurally identical records
Batch(keys, n) == JArr([i \in 1..n |-> Record(keys, i - 1)])

KeyLists ==
  {<<>>, <<K_a>>, <<K_ab>>, <<K_id>>, <<K_accent>>, <<K_128>>,
   <<K_ab, K_cd>>, <<K_id, K_name>>, <<K_ab, K_id>>, <<K_cd, K_ab>>, <<K_bom, K_ab>>}

RECURSIVE Nest(_, _)
Nest(v, d) ==
  IF d = 0 THEN v
  ELSE IF d % 2 = 1 THEN JArr(<<Nest(v, d - 1)>>)
  ELSE JObj(<< <<K_ab, Nest(v, d - 1)>>, <<K_cd, Nest(v, d - 1)>> >>)

\* the values other than the large batches
SmallValues ==
  Primitives
    \cup {JArr([i \in 1..n |-> v]) : n \in 0..MaxArrayLen, v \in Leaves}
    \cup {JObj(<< <<k, v>> >>) : k \in KeySamples, v \in Leaves}
    \cup {Batch(keys, n) : keys \in KeyLists, n \in 1..MaxArrayLen}
    \cup {Nest(v, d) : v \in Leaves \cup {Record(<<K_ab, K_id>>, 7)}, d \in 1..MaxDepth}
    \cup {JObj(<< <<K_ab, Batch(<<K_ab>>, n)>>, <<K_cd, JNull>> >>) : n \in 1..MaxArrayLen}

Values == SmallValues \cup {Batch(keys, BATCH_SIZE) : keys \in KeyLists}

\* numbers outside the model's integers: from 2^31 up to 2^100, their
\* negatives, and numbers with a fractional part
NumberSamples ==
  {JNum(FALSE, 1, 31), JNum(FALSE, 3, 30), JNum(FALSE, INT32_MAX, 1),
   JNum(FALSE, 1, 32), JNum(FALSE, 5, 40), JNum(FALSE, INT32_MAX, 22),
   JNum(FALSE, 1, 53), JNum(FALSE, 3, 61), JNum(FALSE, 1, 63), JNum(FALSE, 3, 62),
   JNum(FALSE, 1, 64), JNum(FALSE, 5, 64), JNum(FALSE, 1, 100),
   JNum(TRUE, 3, 30), JNum(TRUE, 1, 32), JNum(TRUE, INT32_MAX, 22),
   JNum(TRUE, 1, 53), JNum(TRUE, 1, 63), JNum(TRUE, 3, 62), JNum(TRUE, 1, 64),
   JNum(FALSE, 1, 40), JNum(TRUE, 1, 40), JNum(FALSE, 1, 52), JNum(TRUE, 1, 52),
   JNum(FALSE, INT32_MAX, 21), JNum(TRUE, INT32_MAX, 21),
   JNum(FALSE, 1, -1), JNum(TRUE, 3, -2), JNum(FALSE, 16777217, -1),
   JNum(FALSE, 1, -10), JNum(TRUE, INT32_MAX, -31)}

\* unsigned integers around the points where a varint takes one more group,
\* up to the largest integer of the model
VarintSamples ==
  {0, 1, 127, 128, 129, 300, 16383, 16384, 2097151, 2097152, 268435455,
   268435456, 268435457, 536870912, 1073741824, INT32_MAX}

NoValue == <<"undefined">>

EncodeOptions == [includeHeader : BOOLEAN, useStringTable : BOOLEAN, expectHeader : BOOLEAN]

\* Messages that no encode call of the model produces: headers carrying
\* other version bytes, and key-table messages whose object entries use the
\* three key forms (table index, common-dictionary byte, literal key).
VersionSamples == {0, FORMAT_VERSION, FORMAT_VERSION + 1, 255}

TableMessage(version, keys, valueBytes) ==
  MAGIC_NUMBER \o <<TAG_HEADER_WITH_STRING_TABLE, version>> \o writeVarint(Len(keys))
    \o writeStringTableKeys(keys) \o valueBytes

PlainMessage(version, valueBytes) == MAGIC_NUMBER \o <<version>> \o valueBytes

\* an object of key-table mode whose entries carry the given key bytes
ObjectWithKeyBytes(keyBytes) ==
  <<TAG_OBJECT_SHORT, Len(keyBytes)>> \o
    (IF Len(keyBytes) = 0 THEN <<>>
     ELSE IF Len(keyBytes) = 1 THEN keyBytes[1] \o writeNumber(1)
     ELSE IF Len(keyBytes) = 2 THEN keyBytes[1] \o writeNumber(1) \o keyBytes[2] \o writeNumber(2)
     ELSE keyBytes[1] \o writeNumber(1) \o keyBytes[2] \o writeNumber(2)
            \o keyBytes[3] \o writeNumber(3))

\* the key table of the messages built here
CraftedTable == <<K_ab, K_a>>

IndexForm == writeVarint(0)             \* index 0 of the table: "ab"
CommonForm == writeKeyString(K_name)     \* the dictionary byte of "name"
LiteralForm == writeKeyString(K_cd)      \* length 2, then "cd"

KeyFormLists ==
  {<<IndexForm>>, <<CommonForm>>, <<LiteralForm>>,
   <<IndexForm, CommonForm>>, <<IndexForm, LiteralForm>>,
   <<IndexForm, CommonForm, LiteralForm>>, <<writeVarint(1), IndexForm>>}

\* a key-table message whose one object carries the given key forms
KeyFormMessage(kb) == TableMessage(FORMAT_VERSION, CraftedTable, ObjectWithKeyBytes(kb))

\* key positions that hold no index of the table: the table size, a larger
\* number, and five bytes that readVarint makes a negative number of
OutOfRangeForms == {writeVarint(Len(CraftedTable)), writeVarint(200), <<255, 255, 255, 255, 15>>}

BadIndexMessages ==
  {KeyFormMessage(<<f>>) : f \in OutOfRangeForms}
    \cup {KeyFormMessage(<<IndexForm, f>>) : f \in OutOfRangeForms}

\* messages whose first four bytes are not the magic number
CorruptMagicMessages ==
  {<<0, 0, 0, 0, FORMAT_VERSION>>,
   <<66, 79, 79, 77, FORMAT_VERSION>> \o writeNull,
   <<66, 0, 79, 78, FORMAT_VERSION>> \o writeNull,
   <<TAG_HEADER_WITH_STRING_TABLE, FORMAT_VERSION>> \o writeVarint(0) \o writeNull \o writeNull}

\* 0xC3 opens a two-byte sequence and 0x28 does not continue it
InvalidUtf8 == <<195, 40>>

\* the bytes of a two-byte text with the invalid sequence in place of the text
Spoil(bytes) == SubSeq(bytes, 1, Len(bytes) - Len(InvalidUtf8)) \o InvalidUtf8

\* a key table whose one entry is the invalid sequence
SpoiledTable ==
  <<TAG_HEADER_WITH_STRING_TABLE, FORMAT_VERSION>> \o writeVarint(1)
    \o Spoil(writeStringTableKeys(<<K_cd>>))

\* invalid UTF-8 in a string value, in an object key and in a key-table entry
InvalidUtf8Messages ==
  {PlainMessage(FORMAT_VERSION, Spoil(writeString(K_cd))),
   PlainMessage(FORMAT_VERSION, ObjectWithKeyBytes(<<Spoil(writeKeyString(K_cd))>>)),
   MAGIC_NUMBER \o SpoiledTable \o ObjectWithKeyBytes(<<IndexForm>>)}

V2Message(valueBytes) == V2_MAGIC \o <<V2_VERSION>> \o valueBytes

\* the same in a v2 string value and in a v2 object key
V2InvalidUtf8Messages ==
  {V2Message(Spoil(v2_encodeValue(JStr(K_cd)))),
   V2Message(<<V2_TAG_OBJECT>> \o encodeVarint(1) \o encodeVarint(Len(InvalidUtf8))
               \o InvalidUtf8 \o <<V2_TAG_NULL>>)}

\* the values of TYPE_TAG, and of TAG in the v2 codec
TYPE_TAGS ==
  {TAG_NULL, TAG_FALSE, TAG_TRUE, TAG_INT8, TAG_INT16, TAG_INT32, TAG_INT64,
   TAG_UINT8, TAG_UINT16, TAG_UINT32, TAG_FLOAT32, TAG_FLOAT64,
   TAG_STRING_EMPTY, TAG_STRING_SHORT, TAG_STRING_MEDIUM, TAG_STRING_LONG,
   TAG_ARRAY_EMPTY, TAG_ARRAY_SHORT, TAG_ARRAY_MEDIUM, TAG_ARRAY_LONG,
   TAG_OBJECT_EMPTY, TAG_OBJECT_SHORT, TAG_OBJECT_MEDIUM, TAG_OBJECT_LONG,
   TAG_HEADER_WITH_STRING_TABLE}

V2_TAGS ==
  {V2_TAG_NULL, V2_TAG_FALSE, V2_TAG_TRUE, V2_TAG_INT, V2_TAG_FLOAT64,
   V2_TAG_STRING, V2_TAG_STRING_EMPTY, V2_TAG_ARRAY, V2_TAG_ARRAY_EMPTY,
   V2_TAG_ARRAY_INDEF, V2_TAG_OBJECT, V2_TAG_OBJECT_EMPTY, V2_TAG_OBJECT_INDEF,
   V2_TAG_BREAK}

\* where a decoder expects a value: at the root, as the one element of an
\* array, as the value of the one entry of an object
Places == {"root", "element", "entry"}

\* the byte t where a value is expected
TagProbe(place, t) ==
  CASE place = "root" -> <<t>>
    [] place = "element" -> <<TAG_ARRAY_SHORT, 1, t>>
    [] place = "entry" -> <<TAG_OBJECT_SHORT, 1>> \o writeKeyString(K_a) \o <<t>>

V2TagProbe(place, t) ==
  CASE place = "root" -> <<t>>
    [] place = "element" -> <<V2_TAG_ARRAY>> \o encodeVarint(1) \o <<t>>
    [] place = "entry" -> <<V2_TAG_OBJECT>> \o encodeVarint(1) \o encodeVarint(Len(K_a))
                            \o K_a \o <<t>>

TagProbeMessages ==
  {PlainMessage(FORMAT_VERSION, TagProbe(place, t)) : place \in Places, t \in 0..255}

V2TagProbeMessages ==
  {V2Message(V2TagProbe(place, t)) : place \in Places, t \in 0..255}

\* objects that carry one key twice, each with the value decode is to
\* return by the rule that the last occurrence wins: in keyed form (values
\* 1, 2, 3 in order), in key-table form, and for v2 in definite and
\* indefinite form (values false, true)
DuplicateKeys == {K_a, K_128, PROTO_KEY}

DuplicateKeyMessages ==
  {<<PlainMessage(FORMAT_VERSION,
                  ObjectWithKeyBytes(<<writeKeyString(k), writeKeyString(k)>>)),
     JObj(<< <<k, JInt(2)>> >>)>> : k \in DuplicateKeys \ {K_128}}
    \cup {<<PlainMessage(FORMAT_VERSION,
                  ObjectWithKeyBytes(<<writeKeyString(K_a), writeKeyString(K_cd),
                                       writeKeyString(K_a)>>)),
            JObj(<< <<K_a, JInt(3)>>, <<K_cd, JInt(2)>> >>)>>,
          <<KeyFormMessage(<<IndexForm, IndexForm>>),
            JObj(<< <<CraftedTable[1], JInt(2)>> >>)>>,
          <<KeyFormMessage(<<IndexForm, writeVarint(1), IndexForm>>),
            JObj(<< <<CraftedTable[1], JInt(3)>>, <<CraftedTable[2], JInt(2)>> >>)>>}

V2KeyBytes(k) == encodeVarint(Len(k)) \o k

V2DuplicateKeyMessages ==
  {<<V2Message(<<V2_TAG_OBJECT>> \o encodeVarint(2) \o V2KeyBytes(k) \o <<V2_TAG_FALSE>>
                 \o V2KeyBytes(k) \o <<V2_TAG_TRUE>>),
     JObj(<< <<k, JBool(TRUE)>> >>)>> : k \in DuplicateKeys}
    \cup {<<V2Message(<<V2_TAG_OBJECT_INDEF>> \o V2KeyBytes(k) \o <<V2_TAG_FALSE>>
                 \o V2KeyBytes(k) \o <<V2_TAG_TRUE, V2_TAG_BREAK>>),
            JObj(<< <<k, JBool(TRUE)>> >>)>> : k \in DuplicateKeys}

\* a break byte where a value is expected, inside open indefinite containers:
\* as the value of an entry of an indefinite object, and as the second
\* element of a definite array that is itself in an indefinite array
V2BreakAsEntryValue ==
  V2Message(<<V2_TAG_OBJECT_INDEF>> \o encodeVarint(Len(K_a)) \o K_a \o <<V2_TAG_BREAK>>)

V2BreakInDefiniteArray ==
  V2Message(<<V2_TAG_ARRAY_INDEF, V2_TAG_ARRAY>> \o encodeVarint(2)
              \o <<V2_TAG_NULL, V2_TAG_BREAK, V2_TAG_BREAK>>)

V2MisplacedBreakMessages ==
  {V2Message(V2TagProbe(place, V2_TAG_BREAK)) : place \in Places}
    \cup {V2BreakAsEntryValue, V2BreakInDefiniteArray}

\* break bytes that end indefinite containers, paired with the value written
V2TerminatedMessages ==
  {<<V2Message(<<V2_TAG_ARRAY_INDEF, V2_TAG_BREAK>>), JArr(<<>>)>>,
   <<V2Message(<<V2_TAG_OBJECT_INDEF, V2_TAG_BREAK>>), JObj(<<>>)>>,
   <<V2Message(<<V2_TAG_ARRAY>> \o encodeVarint(1) \o <<V2_TAG_ARRAY_INDEF, V2_TAG_NULL, V2_TAG_BREAK>>),
     JArr(<<JArr(<<JNull>>)>>)>>,
   <<V2Message(<<V2_TAG_ARRAY_INDEF, V2_TAG_ARRAY_INDEF, V2_TAG_BREAK, V2_TAG_NULL, V2_TAG_BREAK>>),
     JArr(<<JArr(<<>>), JNull>>)>>,
   <<V2Message(<<V2_TAG_OBJECT_INDEF>> \o encodeVarint(Len(K_a)) \o K_a
                 \o <<V2_TAG_ARRAY_INDEF, V2_TAG_BREAK, V2_TAG_BREAK>>),
     JObj(<< <<K_a, JArr(<<>>)>> >>)>>}

V2CraftedMessages ==
  V2InvalidUtf8Messages \cup V2TagProbeMessages \cup V2MisplacedBreakMessages
    \cup {m[1] : m \in V2TerminatedMessages}
    \cup {m[1] : m \in V2DuplicateKeyMessages}

\* the varints that readVarint returns as -1 and as -5
MINUS_ONE == <<255, 255, 255, 255, 15>>
MINUS_FIVE == <<251, 255, 255, 255, 15>>

\* key tables whose entries declare a negative length, before a null: one
\* entry of length -1, and two entries that share the bytes of one length -5
NegativeLengthMessages ==
  {MAGIC_NUMBER \o <<TAG_HEADER_WITH_STRING_TABLE, FORMAT_VERSION>> \o writeVarint(1)
     \o MINUS_ONE \o <<TAG_NULL>>,
   MAGIC_NUMBER \o <<TAG_HEADER_WITH_STRING_TABLE, FORMAT_VERSION>> \o writeVarint(2)
     \o MINUS_FIVE \o <<TAG_NULL>>}

\* whole messages with bytes after the root value, each with the root value
TrailingBytesMessages ==
  {<<PlainMessage(FORMAT_VERSION, writeValue(JNull) \o <<TAG_TRUE>>), JNull>>,
   <<PlainMessage(FORMAT_VERSION, writeValue(Record(<<K_ab>>, 1)) \o <<255, 0>>),
     Record(<<K_ab>>, 1)>>,
   <<TableMessage(FORMAT_VERSION, CraftedTable,
                  writeValueWithKeyMap(Record(<<K_ab>>, 1), KeyMapOf(CraftedTable))
                    \o <<TAG_NULL>>),
     Record(<<K_ab>>, 1)>>}

CraftedMessages ==
  {PlainMessage(ver, writeValue(v)) : ver \in VersionSamples, v \in {JNull, Record(<<K_ab>>, 1)}}
    \cup {TableMessage(ver, CraftedTable, writeValueWithKeyMap(v, KeyMapOf(CraftedTable))) :
            ver \in VersionSamples, v \in {JNull, Record(<<K_ab>>, 1)}}
    \cup {KeyFormMessage(kb) : kb \in KeyFormLists}
    \cup CorruptMagicMessages
    \cup BadIndexMessages
    \cup InvalidUtf8Messages
    \cup TagProbeMessages
    \cup {m[1] : m \in DuplicateKeyMessages}
    \cup NegativeLengthMessages
    \cup {m[1] : m \in TrailingBytesMessages}

----------------------------------------------------------------------------
(* The state machine: encode (or receive) a message, decode it eagerly,    *)
(* then consume decodeStreamSync one event at a time.                      *)

\* options.initialBufferSize, and how many bytes a run of writes goes to
InitialBufferSizes == {0, 1, 2, 5, 16}
MaxBufferBytes == 8
BufferTables == {<<>>, <<K_a>>, <<K_a, K_cd>>, <<K_accent>>, <<K_128>>}
NoBuffer == createGrowableBuffer(0)

Init ==
  /\ origin = "none"
  /\ \/ pc = "init" /\ value \in Values /\ opts \in EncodeOptions
     \/ /\ pc = "init"
        /\ value = NoValue
        /\ opts \in {o \in EncodeOptions : o.includeHeader /\ o.useStringTable}
     \/ /\ pc = "initNumber"
        /\ value \in NumberSamples
        /\ opts \in {o \in EncodeOptions : o.expectHeader}
     \/ /\ pc = "initVarint"
        /\ value \in {JInt(n) : n \in VarintSamples}
        /\ opts = [includeHeader |-> TRUE, useStringTable |-> TRUE, expectHeader |-> TRUE]
     \/ /\ pc = "initV2"
        /\ value \in SmallValues \cup {NoValue}
        /\ opts = [includeHeader |-> TRUE, useStringTable |-> TRUE, expectHeader |-> TRUE]
     \/ /\ pc = "initBuffer"
        /\ value = NoValue
        /\ opts = [includeHeader |-> TRUE, useStringTable |-> TRUE, expectHeader |-> TRUE]
  /\ buf \in IF pc = "initBuffer"
              THEN {createGrowableBuffer(n) : n \in InitialBufferSizes}
              ELSE {NoBuffer}
  /\ data = <<>>
  /\ result = Fail("none", 0)
  /\ sOffset = 0
  /\ sKeyTable = NoTable
  /\ sStack = <<>>
  /\ sEvents = <<>>
  /\ sStatus = "idle"
  /\ sError = "none"

streamVars == <<sOffset, sKeyTable, sStack, sEvents, sStatus, sError>>

\* encode(value, {includeHeader, useStringTable})
Encode ==
  /\ pc = "init"
  /\ value # NoValue
  /\ data' = encodeValue(value, opts)
  /\ origin' = "encode"
  /\ pc' = "ready"
  /\ UNCHANGED <<buf, value, opts, result, streamVars>>

\* encode(value, {includeHeader, useStringTable}) for a number outside the
\* model's integers: what encode writes around a root number, then
\* writeNumber
EncodeNumber ==
  /\ pc = "initNumber"
  /\ LET around == encodeValue(JInt(0), opts)
     IN data' = SubSeq(around, 1, Len(around) - Len(writeNumber(0)))
                  \o writeNumberValue(value)
  /\ origin' = "encodeNumber"
  /\ pc' = "written"
  /\ UNCHANGED <<buf, value, opts, result, streamVars>>

\* a message from elsewhere reaches the decoders
Receive ==
  /\ pc = "init"
  /\ value = NoValue
  /\ \E m \in CraftedMessages : data' = m
  /\ origin' = "craft"
  /\ pc' = "ready"
  /\ UNCHANGED <<buf, value, opts, result, streamVars>>

\* only a strict prefix of the message encode wrote reaches the decoder
\* (large batches aside); the header is the one the decoder is told to expect
ReceivePrefix ==
  /\ pc = "init"
  /\ value \in SmallValues
  /\ opts.includeHeader = opts.expectHeader
  /\ LET m == encodeValue(value, opts)
     IN \E n \in 0..(Len(m) - 1) : data' = SubSeq(m, 1, n)
  /\ origin' = "prefix"
  /\ pc' = "cut"
  /\ UNCHANGED <<buf, value, opts, result, streamVars>>

\* decode(data, {expectHeader, strict}); the event stream is consumed for whole
\* messages only
Decode ==
  /\ pc \in {"ready", "cut"}
  /\ \E strict \in BOOLEAN :
       result' = decodeValue(data, resolveDecodeOptions(opts.expectHeader, strict))
  /\ pc' = IF pc = "ready" THEN "decoded" ELSE "cutDone"
  /\ UNCHANGED <<buf, origin, value, opts, data, streamVars>>

\* what one resumption leaves behind
Resumed(r, kt) ==
  /\ sOffset' = r.off
  /\ sKeyTable' = kt
  /\ sStack' = r.stack
  /\ sEvents' = sEvents \o r.events
  /\ sStatus' = r.status
  /\ sError' = r.err
  /\ pc' = IF r.status = "running" THEN "streaming" ELSE "done"

\* the first next() on decodeStreamSync(data, {expectHeader}): with a header
\* expected it runs readHeaderEvents to the header event, otherwise it runs
\* streamValue to its first event
StreamStart ==
  /\ pc = "decoded"
  /\ IF opts.expectHeader
       THEN LET h == readHeaderEvents(data)
            IN IF h.ok
                 THEN Resumed(Yield(h.val.event, h.off, << <<"root">> >>), h.val.keyTable)
                 ELSE Resumed(Throw(h.err, h.off, <<>>), NoTable)
       ELSE Resumed(streamResume(data, 0, NoTable, << <<"root">> >>), NoTable)
  /\ UNCHANGED <<buf, origin, value, opts, data, result>>

\* every further next()
StreamNext ==
  /\ pc = "streaming"
  /\ Resumed(streamResume(data, sOffset, sKeyTable, sStack), sKeyTable)
  /\ UNCHANGED <<buf, origin, value, opts, data, result>>

\* v2 encode(value)
V2Encode ==
  /\ pc = "initV2"
  /\ value # NoValue
  /\ data' = v2_encode(value)
  /\ origin' = "encodeV2"
  /\ pc' = "readyV2"
  /\ UNCHANGED <<buf, value, opts, result, streamVars>>

\* only a strict prefix of the message v2 encode wrote reaches the decoder
V2ReceivePrefix ==
  /\ pc = "initV2"
  /\ value # NoValue
  /\ LET m == v2_encode(value)
     IN \E n \in 0..(Len(m) - 1) : data' = SubSeq(m, 1, n)
  /\ origin' = "prefixV2"
  /\ pc' = "readyV2"
  /\ UNCHANGED <<buf, value, opts, result, streamVars>>

\* the value reaches the v2 decoder in the indefinite-length layout
V2ReceiveIndefinite ==
  /\ pc = "initV2"
  /\ value # NoValue
  /\ data' = V2_MAGIC \o <<V2_VERSION>> \o v2_indefiniteValue(value)
  /\ origin' = "indefV2"
  /\ pc' = "readyV2"
  /\ UNCHANGED <<buf, value, opts, result, streamVars>>

\* a v2 message from elsewhere reaches the v2 decoder
V2Receive ==
  /\ pc = "initV2"
  /\ value = NoValue
  /\ \E m \in V2CraftedMessages : data' = m
  /\ origin' = "craftV2"
  /\ pc' = "readyV2"
  /\ UNCHANGED <<buf, value, opts, result, streamVars>>

\* v2 encode(value) for a number outside the model's integers
V2EncodeNumber ==
  /\ pc = "initNumber"
  /\ opts.includeHeader /\ opts.useStringTable
  /\ data' = V2_MAGIC \o <<V2_VERSION>> \o v2_encodeNumber(value)
  /\ origin' = "encodeNumberV2"
  /\ pc' = "readyV2"
  /\ UNCHANGED <<buf, value, opts, result, streamVars>>

\* v2 decode(data)
V2Decode ==
  /\ pc = "readyV2"
  /\ result' = v2_decode(data)
  /\ pc' = "doneV2"
  /\ UNCHANGED <<buf, origin, value, opts, data, streamVars>>

\* writeVarint(buf, value) of the primary encoder, on an empty buffer
VarintWrite ==
  /\ pc = "initVarint"
  /\ data' = writeVarint(value[2])
  /\ origin' = "writeVarint"
  /\ pc' = "varintWritten"
  /\ UNCHANGED <<buf, value, opts, result, streamVars>>

\* readVarint(reader) of the primary decoders, from offset 0
VarintRead ==
  /\ pc = "varintWritten"
  /\ origin = "writeVarint"
  /\ result' = Wrap("int", readVarint(data, 0))
  /\ pc' = "varintRead"
  /\ UNCHANGED <<buf, origin, value, opts, data, streamVars>>

\* encodeVarint(value, out) of the v2 encoder, on an empty output
V2VarintEncode ==
  /\ pc = "initVarint"
  /\ data' = encodeVarint(value[2])
  /\ origin' = "encodeVarint"
  /\ pc' = "varintWritten"
  /\ UNCHANGED <<buf, value, opts, result, streamVars>>

\* readVarint() of the v2 decoder, from position 0
V2VarintRead ==
  /\ pc = "varintWritten"
  /\ origin = "encodeVarint"
  /\ result' = Wrap("int", v2_readVarint(data, 0))
  /\ pc' = "varintRead"
  /\ UNCHANGED <<buf, origin, value, opts, data, streamVars>>

BufferOpen ==
  /\ pc \in {"initBuffer", "writing"}
  /\ ~buf.thrown
  /\ Len(data) < MaxBufferBytes

\* writeTag on the buffer of an encode call
BufferWriteTag ==
  /\ BufferOpen
  /\ buf' = buf_writeTag(buf, TAG_NULL)
  /\ data' = data \o <<TAG_NULL>>
  /\ origin' = "buffer"
  /\ pc' = "writing"
  /\ UNCHANGED <<value, opts, result, streamVars>>

\* writeHeader on the buffer of an encode call
BufferWriteHeader ==
  /\ BufferOpen
  /\ buf' = buf_writeHeader(buf)
  /\ data' = data \o writeHeader
  /\ origin' = "buffer"
  /\ pc' = "writing"
  /\ UNCHANGED <<value, opts, result, streamVars>>

\* writeStringTable on the buffer of an encode call
BufferWriteStringTable ==
  /\ BufferOpen
  /\ \E keys \in BufferTables :
       /\ buf' = buf_writeStringTable(buf, keys)
       /\ data' = data \o writeStringTable(keys)
  /\ origin' = "buffer"
  /\ pc' = "writing"
  /\ UNCHANGED <<value, opts, result, streamVars>>

\* buf.getResult() at the end of encode
BufferGetResult ==
  /\ pc = "writing"
  /\ ~buf.thrown
  /\ result' = Ok(<<"bytes", getResult(buf)>>, buf.offset)
  /\ pc' = "bufferResult"
  /\ UNCHANGED <<buf, origin, value, opts, data, streamVars>>

Next ==
  \/ Encode \/ EncodeNumber \/ Receive \/ ReceivePrefix \/ Decode \/ StreamStart \/ StreamNext
  \/ V2Encode \/ V2ReceivePrefix \/ V2ReceiveIndefinite \/ V2Receive \/ V2Decode
  \/ V2EncodeNumber \/ VarintWrite \/ VarintRead \/ V2VarintEncode \/ V2VarintRead
  \/ BufferWriteTag \/ BufferWriteHeader \/ BufferWriteStringTable \/ BufferGetResult

Spec == Init /\ [][Next]_vars

----------------------------------------------------------------------------
(* What a consumer of the event stream sees *)

IsValueStart(ev) == ev[1] \in {"primitive", "startArray", "startObject"}

Parsed(v, next) == [ok |-> TRUE, val |-> v, next |-> next]
Malformed == [ok |-> FALSE, val |-> <<"none">>, next |-> 0]

RECURSIVE ParseValue(_, _)
RECURSIVE ParseItems(_, _, _)
RECURSIVE ParseEntries(_, _, _)

\* the value whose events start at position i
ParseValue(evs, i) ==
  IF i > Len(evs) THEN Malformed
  ELSE IF evs[i][1] = "primitive" THEN Parsed(evs[i][2], i + 1)
  ELSE IF evs[i][1] = "startArray" THEN ParseItems(evs, i + 1, <<>>)
  ELSE IF evs[i][1] = "startObject" THEN ParseEntries(evs, i + 1, <<>>)
  ELSE Malformed

ParseItems(evs, i, acc) ==
  IF i > Len(evs) THEN Malformed
  ELSE IF evs[i][1] = "endArray" THEN Parsed(<<"arr", acc>>, i + 1)
  ELSE LET item == ParseValue(evs, i)
       IN IF ~item.ok THEN Malformed
          ELSE ParseItems(evs, item.next, Append(acc, item.val))

ParseEntries(evs, i, acc) ==
  IF i > Len(evs) THEN Malformed
  ELSE IF evs[i][1] = "endObject" THEN Parsed(<<"obj", acc>>, i + 1)
  ELSE IF evs[i][1] # "key" THEN Malformed
  ELSE LET v == ParseValue(evs, i + 1)
       IN IF ~v.ok THEN Malformed
          ELSE ParseEntries(evs, v.next, ObjSet(acc, evs[i][2], v.val))

\* the tree a consumer builds from a complete event sequence (the header
\* event, if any, set aside): <<"value", v>>, or <<"malformed">>
Rebuild(evs) ==
  LET start == IF Len(evs) > 0 /\ evs[1][1] = "header" THEN 2 ELSE 1
      r == ParseValue(evs, start)
  IN IF r.ok /\ r.next = Len(evs) + 1 THEN <<"value", r.val>> ELSE <<"malformed">>

\* Bracket matching by halves.  A summary of a segment of events is its
\* unmatched end events, its unmatched start events, and whether every
\* matched pair inside it is of one kind.
StartKind(ev) == IF ev[1] = "startArray" THEN "arr" ELSE "obj"
EndKind(ev) == IF ev[1] = "endArray" THEN "arr" ELSE "obj"

SummaryOf(ev) ==
  IF ev[1] \in {"startArray", "startObject"}
    THEN [ok |-> TRUE, closes |-> <<>>, opens |-> <<StartKind(ev)>>]
  ELSE IF ev[1] \in {"endArray", "endObject"}
    THEN [ok |-> TRUE, closes |-> <<EndKind(ev)>>, opens |-> <<>>]
  ELSE [ok |-> TRUE, closes |-> <<>>, opens |-> <<>>]

Merge(L, R) ==
  LET lo == Len(L.opens)
      rc == Len(R.closes)
      k == IF lo < rc THEN lo ELSE rc
  IN [ok |-> L.ok /\ R.ok /\ \A i \in 1..k : L.opens[lo - i + 1] = R.closes[i],
      closes |-> L.closes \o SubSeq(R.closes, k + 1, rc),
      opens |-> SubSeq(L.opens, 1, lo - k) \o R.opens]

RECURSIVE Summary(_, _, _)
Summary(evs, lo, hi) ==
  IF lo > hi THEN [ok |-> TRUE, closes |-> <<>>, opens |-> <<>>]
  ELSE IF lo = hi THEN SummaryOf(evs[lo])
  ELSE LET mid == (lo + hi) \div 2
       IN Merge(Summary(evs, lo, mid), Summary(evs, mid + 1, hi))

\* the kinds of the containers open after the events evs[1..n], outermost first
OpenAfter(evs, n) == Summary(evs, 1, n).opens

\* the events without the header event
ValueEvents(evs) ==
  IF Len(evs) > 0 /\ evs[1][1] = "header" THEN SubSeq(evs, 2, Len(evs)) ELSE evs

\* the key names of the key events, in order
IsKeyEvent(ev) == ev[1] = "key"

KeyEventNames(evs) ==
  LET keyEvents == SelectSeq(evs, IsKeyEvent)
  IN [k \in 1..Len(keyEvents) |-> keyEvents[k][2]]

IsPrimitiveEvent(ev) == ev[1] = "primitive"

\* the values of the primitive events, in order
PrimitiveEventValues(evs) ==
  LET prims == SelectSeq(evs, IsPrimitiveEvent)
  IN [k \in 1..Len(prims) |-> prims[k][2]]

\* the primitive values of a value in the order they are encoded
RECURSIVE LeafValues(_)
LeafValues(v) ==
  IF Kind(v) = "arr"
    THEN Concat([i \in 1..Len(v[2]) |-> LeafValues(v[2][i])], 1, Len(v[2]))
  ELSE IF Kind(v) = "obj"
    THEN Concat([i \in 1..Len(v[2]) |-> LeafValues(v[2][i][2])], 1, Len(v[2]))
  ELSE <<v>>

IsPrefix(s, t) == Len(s) <= Len(t) /\ \A i \in 1..Len(s) : s[i] = t[i]

Range(s) == {s[i] : i \in 1..Len(s)}

\* every object key of a value
RECURSIVE AllKeys(_)
AllKeys(v) ==
  IF Kind(v) = "arr" THEN UNION {AllKeys(v[2][i]) : i \in 1..Len(v[2])}
  ELSE IF Kind(v) = "obj"
    THEN UNION {{v[2][i][1]} \cup AllKeys(v[2][i][2]) : i \in 1..Len(v[2])}
  ELSE {}

WithoutTable(o) == [o EXCEPT !.useStringTable = FALSE]

----------------------------------------------------------------------------
(* Properties *)

Decoded == pc \in {"decoded", "streaming", "done"}

DefaultOptions == opts.includeHeader /\ opts.useStringTable /\ opts.expectHeader

\* the message starts with the magic number and the key-table header tag,
\* and the decoders are called expecting a header
HasTableHeader ==
  /\ opts.expectHeader
  /\ Len(data) > Len(MAGIC_NUMBER) + 1
  /\ SubSeq(data, 1, Len(MAGIC_NUMBER)) = MAGIC_NUMBER
  /\ data[Len(MAGIC_NUMBER) + 1] = TAG_HEADER_WITH_STRING_TABLE

\* a key name as it comes back from the bytes written for it
AsRead(key) == textDecoder_decode(textEncoder_encode(key))

\* the key table the message carries, as names
MessageTable ==
  IF origin = "encode"
    THEN LET keys == collectKeys(value) IN [i \in 1..Len(keys) |-> AsRead(keys[i])]
    ELSE IF IsPrefix(MAGIC_NUMBER \o SpoiledTable, data)
      THEN <<textDecoder_decode(InvalidUtf8)>>
    ELSE IF data \in NegativeLengthMessages
      THEN [i \in 1..data[Len(MAGIC_NUMBER) + 3] |-> <<>>]
    ELSE CraftedTable

\* the bytes the key table takes in the message, from the header tag on
MessageTableBytes ==
  IF origin # "encode" /\ IsPrefix(MAGIC_NUMBER \o SpoiledTable, data)
    THEN SpoiledTable
  ELSE IF origin # "encode" /\ data \in NegativeLengthMessages
    THEN SubSeq(data, Len(MAGIC_NUMBER) + 1, Len(MAGIC_NUMBER) + 3)
    ELSE writeStringTable(MessageTable)

\* the version byte of a message that starts with the magic number
HeaderVersion ==
  IF data[Len(MAGIC_NUMBER) + 1] = TAG_HEADER_WITH_STRING_TABLE
    THEN data[Len(MAGIC_NUMBER) + 2]
    ELSE data[Len(MAGIC_NUMBER) + 1]

\* an array of at least BATCH_SIZE objects that all have one key set
IsBatch(v) ==
  /\ Kind(v) = "arr"
  /\ Len(v[2]) >= BATCH_SIZE
  /\ \A i \in 1..Len(v[2]) :
       /\ Kind(v[2][i]) = "obj"
       /\ Range([j \in 1..Len(v[2][i][2]) |-> v[2][i][2][j][1]])
            = Range([j \in 1..Len(v[2][1][2]) |-> v[2][1][2][j][1]])

\* C1: under default options, decode(encode(v)) equals v for every JSON
\* value v, objects with keys of any byte length included.
C1_RoundTripDefault ==
  (Decoded /\ origin = "encode" /\ DefaultOptions)
    => (result.ok /\ result.val = value)

\* C2: decode(encode(v, {includeHeader: false}), {expectHeader: false})
\* equals v; stated here for the case the claim singles out, useStringTable
\* true and key-table mode selected for v.
C2_RoundTripHeaderless ==
  (Decoded /\ origin = "encode" /\ ~opts.includeHeader /\ ~opts.expectHeader
     /\ selectsKeyTable(value, opts))
    => (result.ok /\ result.val = value)

\* C3: for every message produced by encode, in keyed or key-table form,
\* the tree rebuilt from the complete event sequence of decodeStreamSync is
\* exactly the value decode returns for the same bytes.
C3_StreamRebuildsDecode ==
  (pc = "done" /\ origin = "encode")
    => IF result.ok
         THEN sStatus = "returned" /\ Rebuild(sEvents) = <<"value", result.val>>
         ELSE sStatus = "threw"

\* the message carries an object with the same key twice
CarriesDuplicateKey ==
  origin = "craft" /\ data \in {m[1] : m \in DuplicateKeyMessages}

\* C4: the events yielded by decodeStreamSync are properly nested: an end
\* event closes the innermost open container of its own kind, a key event
\* occurs only directly inside an object and is immediately followed by the
\* first event of its value, a value directly inside an object follows a
\* key, a sequence that runs to its end leaves nothing open, and its keys
\* and primitives come in the order the message encodes them (the order of
\* the value decode builds from the same bytes, which is the encoded order
\* unless the message carries a key twice: decode keeps one entry of the two).
C4_EventsNested ==
  LET evs == ValueEvents(sEvents)
      n == Len(evs)
  IN /\ n > 0 =>
          LET last == evs[n]
              before == Summary(evs, 1, n - 1)
              open == before.opens
              inObject == open # <<>> /\ open[Len(open)] = "obj"
              inArray == open # <<>> /\ open[Len(open)] = "arr"
              afterKey == n > 1 /\ evs[n - 1][1] = "key"
          IN /\ before.ok /\ before.closes = <<>>
             /\ last[1] # "header"
             /\ last[1] = "endArray" => inArray /\ ~afterKey
             /\ last[1] = "endObject" => inObject /\ ~afterKey
             /\ last[1] = "key" => inObject /\ ~afterKey
             /\ IsValueStart(last) => (afterKey <=> inObject) /\ (open = <<>> => n = 1)
     /\ sStatus = "returned" =>
          /\ n > 0
          /\ evs[n][1] # "key"
          /\ LET all == Summary(evs, 1, n)
             IN all.ok /\ all.closes = <<>> /\ all.opens = <<>>
          /\ (result.ok /\ ~CarriesDuplicateKey) =>
               /\ KeyEventNames(evs) = KeyOccurrences(result.val)
               /\ PrimitiveEventValues(evs) = LeafValues(result.val)

\* a stream that ran to its end over an object whose key is followed by the
\* start of an array of objects
C4_Witness ==
  /\ sStatus = "returned"
  /\ \E i \in 1..(Len(sEvents) - 2) :
       /\ sEvents[i][1] = "key"
       /\ sEvents[i + 1][1] = "startArray"
       /\ sEvents[i + 2][1] = "startObject"

\* C5: the first byte written for a key that is not in the common-key
\* dictionary is never in 0x80..0xFF, and readKeyString returns exactly the
\* key writeKeyString wrote.
C5_LiteralKeyPrefix ==
  (pc = "ready" /\ origin = "encode") =>
    \A key \in AllKeys(value) :
      COMMON_KEYS_MAP(key) = -1 =>
        LET written == writeKeyString(key)
        IN /\ written[1] \notin COMMON_KEY_MIN..COMMON_KEY_MAX
           /\ readKeyString(written, 0) = Ok(key, Len(written))

\* C6: whenever encode selects key-table mode, its output is strictly
\* shorter than the output for the same value without a key table.
C6_TableModeShorter ==
  (pc = "ready" /\ origin = "encode" /\ selectsKeyTable(value, opts))
    => Len(data) < Len(encodeValue(value, WithoutTable(opts)))

\* C7: for an array of at least 50 objects sharing one key set,
\* encode(v, {useStringTable: true}) is strictly shorter than
\* encode(v, {useStringTable: false}) and both decode to the same value.
C7_BatchShorter ==
  (pc = "ready" /\ origin = "encode" /\ DefaultOptions /\ IsBatch(value)) =>
    LET plain == encodeValue(value, WithoutTable(opts))
    IN /\ Len(data) < Len(plain)
       /\ decodeValue(data, opts).ok
       /\ decodeValue(plain, opts).ok
       /\ decodeValue(data, opts).val = decodeValue(plain, opts).val

\* the key a key form stands for: a table entry by its index, a dictionary
\* key by its byte, a literal key by its bytes
NameOfForm(f) ==
  IF f = CommonForm THEN K_name
  ELSE IF f = LiteralForm THEN K_cd
  ELSE IF f = IndexForm THEN CraftedTable[1]
  ELSE CraftedTable[2]

\* the object a message of key forms stands for when each form is resolved
ObjectOfForms(kb) == JObj([i \in 1..Len(kb) |-> <<NameOfForm(kb[i]), JInt(i)>>])

OnlyIndexForms(kb) == \A i \in 1..Len(kb) : kb[i] \notin {CommonForm, LiteralForm}

C9_TableBeforeEvents ==
  (HasTableHeader /\ sEvents # <<>>) =>
    LET table == MessageTable
        names == KeyEventNames(sEvents)
    IN /\ sEvents[1] = <<"header", HeaderVersion>>
       /\ sKeyTable = TableOf(table)
       /\ sOffset >= Len(MAGIC_NUMBER) + Len(MessageTableBytes)
       /\ Range(names) \subseteq Range(table)
       /\ origin = "encode" =>
            LET written == KeyOccurrences(value)
            IN IsPrefix(names, [i \in 1..Len(written) |-> AsRead(written[i])])

\* the stream of an encoded key-table message has yielded two different keys
C9_Witness ==
  /\ HasTableHeader
  /\ origin = "encode"
  /\ sKeyTable = TableOf(MessageTable)
  /\ \E i, j \in 1..Len(sEvents) :
       /\ sEvents[i][1] = "key"
       /\ sEvents[j][1] = "key"
       /\ sEvents[i][2] # sEvents[j][2]

\* C10: decode and decodeStreamSync both reject a header whose version
\* byte is greater than FORMAT_VERSION, in the plain header form and in the
\* key-table header form.
C10_NewerVersionRejected ==
  (pc = "done" /\ opts.expectHeader
     /\ Len(data) > Len(MAGIC_NUMBER) + 1
     /\ SubSeq(data, 1, Len(MAGIC_NUMBER)) = MAGIC_NUMBER
     /\ HeaderVersion > FORMAT_VERSION)
    => /\ ~result.ok /\ result.err = "UnsupportedVersion"
       /\ sStatus = "threw" /\ sError = "UnsupportedVersion"

----------------------------------------------------------------------------
(* Properties of error handling and of the number encodings *)

\* C11: with expectHeader true, decode fails with an invalid-header error
\* on every input whose first four bytes are not the magic number, and
\* returns no value for it.
C11_BadMagicRejected ==
  (Decoded /\ opts.expectHeader /\ Len(data) >= Len(MAGIC_NUMBER)
     /\ SubSeq(data, 1, Len(MAGIC_NUMBER)) # MAGIC_NUMBER)
    => (~result.ok /\ result.err \in {"InvalidMagic", "InvalidHeader"})

\* C12: for every strict prefix of a valid encoded message, the empty one
\* and those shorter than the header included, the eager decoder and the v2
\* decoder fail with their truncated-data error and return no value.
C12_PrefixTruncated ==
  /\ pc = "cutDone" => (~result.ok /\ result.err = "RangeError")
  /\ (pc = "doneV2" /\ origin = "prefixV2")
       => (~result.ok /\ result.err = "TruncatedDataError")

\* C13: in a key-table message, a key index outside 0..tableSize-1, one
\* that readVarint makes negative included, makes decode and
\* decodeStreamSync fail with the invalid-key-index error; no entry is
\* produced under the key "undefined".
C13_BadIndexRejected ==
  (pc = "done" /\ origin = "craft" /\ opts.expectHeader /\ data \in BadIndexMessages)
    => /\ ~result.ok /\ result.err = "InvalidKeyIndex"
       /\ sStatus = "threw" /\ sError = "InvalidKeyIndex"

\* C14: invalid UTF-8 in a string value, an object key or a key-table entry
\* makes the eager, the streaming and the v2 decoder fail with the error
\* that is dedicated to invalid UTF-8.
C14_InvalidUtf8Rejected ==
  /\ (pc = "done" /\ data \in InvalidUtf8Messages /\ opts.expectHeader)
       => (~result.ok /\ result.err = "InvalidUtf8Error"
             /\ sStatus = "threw" /\ sError = "InvalidUtf8Error")
  /\ (pc = "doneV2" /\ data \in V2InvalidUtf8Messages)
       => (~result.ok /\ result.err = "InvalidUtf8Error")

C16_ReservedTagError ==
  (origin = "craftV2" /\ pc = "doneV2")
    => \A place \in Places : \A t \in 80..127 :
         data = V2Message(V2TagProbe(place, t))
           => (~result.ok /\ result.err = "ReservedTagError")

\* C17: in the v2 decoder a break byte 0xFF where a value is expected (at
\* the root, as an element of a definite array, as the value of an object
\* entry) fails with UnexpectedBreakError; the byte is accepted only as the
\* terminator of the innermost open indefinite container.
C17_BreakOnlyTerminates ==
  (origin = "craftV2" /\ pc = "doneV2")
    => /\ data \in V2MisplacedBreakMessages
            => (~result.ok /\ result.err = "UnexpectedBreakError")
       /\ \A m \in V2TerminatedMessages :
            data = m[1] => (result.ok /\ result.val = m[2] /\ result.off = Len(data))

\* the break byte as the second element of a definite array inside an
\* indefinite array: refused, although an indefinite container is open
C17_Witness ==
  /\ pc = "doneV2" /\ origin = "craftV2"
  /\ data = V2BreakInDefiniteArray
  /\ ~result.ok /\ result.err = "UnexpectedBreakError"

\* C18: the v2 decoder returns for the indefinite-length encoding of a value
\* (0x3F or 0x4F, the members, 0xFF) the value it returns for the
\* definite-length encoding, for all member counts and all key byte lengths.
C18_IndefiniteAsDefinite ==
  (pc = "doneV2" /\ origin = "indefV2")
    => LET definite == v2_decode(v2_encode(value))
       IN result.ok = definite.ok /\ result.val = definite.val

\* the first byte encode wrote for the root value
RootTag == data[IF opts.includeHeader THEN Len(writeHeader) + 1 ELSE 1]

INTEGER_TAGS ==
  {TAG_INT8, TAG_INT16, TAG_INT32, TAG_INT64, TAG_UINT8, TAG_UINT16, TAG_UINT32}

\* C19: the primary encoder takes the narrowest integer representation:
\* the values 128..255, 32768..65535 and 2^31..2^32-1 are written with the
\* unsigned tag of 8, 16 and 32 bits.
C19_NarrowestInteger ==
  /\ (pc = "ready" /\ origin = "encode" /\ Kind(value) = "int")
       => /\ (value[2] > INT8_MAX /\ value[2] <= UINT8_MAX) => RootTag = TAG_UINT8
          /\ (value[2] > INT16_MAX /\ value[2] <= UINT16_MAX) => RootTag = TAG_UINT16
  /\ (pc = "written" /\ ~value[2] /\ IsInteger(value)
        /\ BitLength(value[3]) + value[4] = 32)
       => RootTag = TAG_UINT32

\* C20: the primary encoder writes an integer tag only for a number without
\* fractional part whose magnitude is within the safe-integer bound; an
\* integer-valued number beyond it, one that does not fit 64 bits above
\* all, is never written as INT64 with a wrapped value.
C20_IntegerTagOnlyWhenSafe ==
  pc = "written"
    => /\ RootTag \in INTEGER_TAGS => IsSafeInteger(value)
       /\ RootTag = TAG_INT64 => FitsInt64(value)

\* C21: in the primary codec readVarint(writeVarint(n)) = n for every
\* unsigned integer n, the values from 2^28 on included: no wrap-around, no
\* truncation, no change of sign.
C21_VarintRoundTrip ==
  (pc = "varintRead" /\ origin = "writeVarint")
    => (result.ok /\ result.val = value /\ result.off = Len(data))

\* the least number of 7-bit groups that hold n
RECURSIVE GroupCount(_)
GroupCount(n) == IF n < 128 THEN 1 ELSE 1 + GroupCount(n \div 128)

\* the bytes are the groups of n, least significant first, the high bit set
\* on every byte but the last
IsMinimalVarint(bytes, n) ==
  /\ Len(bytes) = GroupCount(n)
  /\ \A i \in 1..Len(bytes) :
       /\ bytes[i] % 128 = (n \div (128 ^ (i - 1))) % 128
       /\ bytes[i] >= 128 <=> i < Len(bytes)

\* C22: encodeVarint (v2) and writeVarint (primary) write an unsigned
\* integer in the least number of 7-bit groups (1 byte for 0..127, 2 for
\* 128..16383, 3 for 16384..2097151), least significant group first, the
\* high bit set on every byte except the last.
C22_MinimalGroups ==
  pc = "varintWritten" => IsMinimalVarint(data, value[2])

\* the integers v2 writes with the INT tag: the integers of the model and
\* the wider ones up to 2^52 in magnitude
IsZigzagInteger(v) ==
  \/ Kind(v) = "int"
  \/ /\ Kind(v) = "num" /\ IsInteger(v)
     /\ (BitLength(v[3]) + v[4] <= 52 \/ (v[3] = 1 /\ v[4] = 52))

\* C23: the v2 zigzag mapping sends n to 2n for n >= 0 and to -2n-1 for
\* n < 0 (0 to 0, -1 to 1, 1 to 2, -2 to 3, 127 to 254, -128 to 255), and
\* readZigzag is its exact inverse for every integer the encoder writes
\* with the INT tag (|n| <= 2^52).
C23_ZigzagInverse ==
  (pc = "doneV2" /\ origin \in {"encodeV2", "encodeNumberV2"} /\ IsZigzagInteger(value))
    => /\ data[Len(V2_MAGIC) + 2] = V2_TAG_INT
       /\ result.ok /\ result.val = value /\ result.off = Len(data)
       /\ (Kind(value) = "int" /\ value[2] >= 0 /\ value[2] <= 1073741823)
            => SubSeq(data, Len(V2_MAGIC) + 3, Len(data)) = encodeVarint(2 * value[2])
       /\ (Kind(value) = "int" /\ value[2] < 0 /\ value[2] >= -1073741823)
            => SubSeq(data, Len(V2_MAGIC) + 3, Len(data)) = encodeVarint((-2) * value[2] - 1)

\* -(2^52), the widest negative integer written with the INT tag, is back
\* from the v2 decoder
C23_Witness ==
  /\ pc = "doneV2" /\ origin = "encodeNumberV2"
  /\ value = JNum(TRUE, 1, 52)
  /\ data[Len(V2_MAGIC) + 2] = V2_TAG_INT
  /\ result.ok /\ result.val = value

\* C24: when an object payload contains the same key more than once, every
\* decoder path (v2 and primary, keyed and key-table) returns an object
\* with a single entry for that key, whose value is that of the last
\* occurrence.
C24_LastKeyWins ==
  /\ (Decoded /\ origin = "craft" /\ opts.expectHeader)
       => \A m \in DuplicateKeyMessages :
            data = m[1] => (result.ok /\ result.val = m[2])
  /\ (pc = "doneV2" /\ origin = "craftV2")
       => \A m \in V2DuplicateKeyMessages :
            data = m[1] => (result.ok /\ result.val = m[2])

\* C25: every decode error aborts the call with no partial result: decode
\* returns no value, and decodeStreamSync delivers no value event and no
\* structural event to the consumer before the error.
C25_NoPartialResult ==
  /\ (Decoded /\ ~result.ok) => result.val = <<"none">>
  /\ sStatus = "threw" => \A i \in 1..Len(sEvents) : sEvents[i][1] = "header"

\* C25, as the code has it: decode returns no value when it fails;
\* decodeStreamSync has delivered the events of the input before the place
\* of the error when it throws, these events never make up a complete root
\* value, and the generator is finished by the error.
C25_ErrorEndsStream ==
  /\ (Decoded /\ ~result.ok) => result.val = <<"none">>
  /\ sStatus = "threw" => (pc = "done" /\ Rebuild(sEvents) = <<"malformed">>)

\* the stream has delivered the start of an array and then thrown on the
\* element, on bytes that decode refuses
C25_Witness ==
  /\ pc = "done" /\ sStatus = "threw" /\ ~result.ok
  /\ Len(sEvents) = 2
  /\ sEvents[1][1] = "header"
  /\ sEvents[2][1] = "startArray"

\* what ensureCapacity and grow may be asked for in the checks of a buffer state
MaxBytesNeeded == 12

\* C26: the growable buffer never drops a write: after ensureCapacity(n) the
\* backing array holds at least offset + n bytes, grow never shrinks it and
\* keeps the bytes below the offset, every byte of a writer is stored below
\* the capacity (no store is ignored, no set throws), for every initial
\* size, 0 included; getResult returns exactly the first offset bytes, which
\* are the bytes written.
C26_NoWriteDropped ==
  origin = "buffer" =>
    /\ ~buf.thrown
    /\ buf.offset = Len(data)
    /\ buf.offset <= Len(buf.buffer)
    /\ getResult(buf) = data
    /\ \A n \in 0..MaxBytesNeeded :
         LET e == ensureCapacity(buf, n)
             g == grow(buf, n)
         IN /\ Len(e.buffer) >= buf.offset + n
            /\ e.offset = buf.offset
            /\ Len(e.buffer) >= Len(buf.buffer)
            /\ SubSeq(e.buffer, 1, buf.offset) = SubSeq(buf.buffer, 1, buf.offset)
            /\ Len(g.buffer) >= Len(buf.buffer)
            /\ Len(g.buffer) >= n
            /\ SubSeq(g.buffer, 1, buf.offset) = SubSeq(buf.buffer, 1, buf.offset)
    /\ pc = "bufferResult" => (result.ok /\ result.val = <<"bytes", data>>)

\* a header and a tag have been written through a buffer that had to grow
\* from 0 or 5 bytes to 10, and getResult has returned the six bytes
C26_Witness ==
  /\ pc = "bufferResult"
  /\ origin = "buffer"
  /\ data = writeHeader \o <<TAG_NULL>>
  /\ Len(buf.buffer) = 10
  /\ result.val = <<"bytes", data>>

\* encode has chosen key-table mode for the value and written the message
\* (data and value stay as they are from "ready" to "done")
KeyTableMessage ==
  /\ origin = "encode"
  /\ value # NoValue
  /\ pc \in {"ready", "done"}
  /\ selectsKeyTable(value, opts)

\* the index in occ of the first occurrence of key
FirstAt(occ, key) == CHOOSE i \in 1..Len(occ) : occ[i] = key /\ \A j \in 1..(i - 1) : occ[j] # key

\* C27: in key-table mode the table is written exactly once, before the first
\* byte of the value; it holds every distinct object key of the value once,
\* in the order in which a pre-order walk first meets them; every key index
\* written is below the table size and designates the entry equal to the key.
C27_KeyTableComplete ==
  KeyTableMessage =>
    LET occ == KeyOccurrences(value)
        keys == collectKeys(value)
        at == IF opts.includeHeader THEN Len(MAGIC_NUMBER) ELSE 0
        tableBytes == writeStringTable(keys)
        table == readStringTable(data, at + 1)
    IN /\ opts.includeHeader => SubSeq(data, 1, at) = MAGIC_NUMBER
       /\ data[at + 1] = TAG_HEADER_WITH_STRING_TABLE
       /\ SubSeq(data, at + 1, at + Len(tableBytes)) = tableBytes
       /\ Range(keys) = AllKeys(value)
       /\ Len(keys) = Cardinality(AllKeys(value))
       /\ \A i, j \in 1..Len(keys) : i < j => FirstAt(occ, keys[i]) < FirstAt(occ, keys[j])
       /\ table.ok
       /\ table.off = at + Len(tableBytes)
       /\ table.val = [i \in 1..Len(keys) |-> AsRead(keys[i])]
       /\ LET body == readValueWithKeyTable(data, table.off, table.val)
          IN body.ok /\ body.off = Len(data)
       /\ (pc = "done" /\ opts.includeHeader /\ opts.expectHeader)
            => /\ sStatus = "returned"
               /\ KeyEventNames(sEvents) = [i \in 1..Len(occ) |-> AsRead(occ[i])]

\* a message in key-table mode whose second table entry is first met inside
\* the value of the first, streamed to its end
C27_Witness ==
  /\ KeyTableMessage
  /\ pc = "done"
  /\ opts.includeHeader /\ opts.expectHeader
  /\ collectKeys(value) = <<K_ab, K_id, K_cd>>
  /\ sStatus = "returned"

\* the offsets of the loop over the entries of the key table of the message
TableLoopOffsets ==
  LET keyCount == readVarint(data, Len(MAGIC_NUMBER) + 2)
  IN IF keyCount.ok THEN stringTableOffsets(data, keyCount.off, keyCount.val)
     ELSE <<keyCount.off>>

\* C28: decode, the v2 decode and a fully consumed decodeStreamSync end on
\* every finite input with a value or an error: every loop iteration
\* consumes at least one byte, so the read offset strictly increases and
\* never exceeds the input length, whatever lengths and counts are declared.
C28_OffsetAdvances ==
  /\ Decoded => (result.off >= 0 /\ result.off <= Len(data))
  /\ pc = "doneV2" => (result.off >= 0 /\ result.off <= Len(data))
  /\ pc = "done" => (sStatus \in {"returned", "threw"} /\ sOffset <= Len(data))
  /\ (pc = "decoded" /\ HasTableHeader) =>
       LET offs == TableLoopOffsets
       IN \A i \in 1..(Len(offs) - 1) : offs[i] < offs[i + 1]

RECURSIVE CountedValue(_, _)
RECURSIVE CountedItems(_, _, _)
RECURSIVE CountedEntries(_, _, _)
CountedValue(evs, i) ==
  IF i > Len(evs) THEN 0
  ELSE IF evs[i][1] = "primitive" THEN i + 1
  ELSE IF evs[i][1] = "startArray" THEN CountedItems(evs, i + 1, evs[i][2])
  ELSE IF evs[i][1] = "startObject" THEN CountedEntries(evs, i + 1, evs[i][2])
  ELSE 0

CountedItems(evs, i, n) ==
  IF n <= 0 THEN (IF i <= Len(evs) /\ evs[i][1] = "endArray" THEN i + 1 ELSE 0)
  ELSE LET next == CountedValue(evs, i)
       IN IF next = 0 THEN 0 ELSE CountedItems(evs, next, n - 1)

CountedEntries(evs, i, n) ==
  IF n <= 0 THEN (IF i <= Len(evs) /\ evs[i][1] = "endObject" THEN i + 1 ELSE 0)
  ELSE IF i > Len(evs) \/ evs[i][1] # "key" THEN 0
  ELSE LET next == CountedValue(evs, i + 1)
       IN IF next = 0 THEN 0 ELSE CountedEntries(evs, next, n - 1)

\* C30: in every event sequence that decodeStreamSync completes without
\* error, startObject(keyCount) is followed before its endObject by exactly
\* keyCount key events at that depth, startArray(length) before its endArray
\* by exactly length child values; with expectHeader the header event is the
\* first event and occurs once, without it no header event occurs.
C30_CountsMatchEvents ==
  (pc = "done" /\ sStatus = "returned") =>
    LET start == IF opts.expectHeader THEN 2 ELSE 1
    IN /\ opts.expectHeader => (Len(sEvents) >= 1 /\ sEvents[1][1] = "header")
       /\ \A i \in start..Len(sEvents) : sEvents[i][1] # "header"
       /\ CountedValue(sEvents, start) = Len(sEvents) + 1

\* the stream of a key-table message has completed after an array of three
\* objects of two keys each, behind the header event
C30_Witness ==
  /\ pc = "done"
  /\ sStatus = "returned"
  /\ opts.expectHeader
  /\ sEvents[1][1] = "header"
  /\ sEvents[2] = <<"startArray", 3>>
  /\ sEvents[3] = <<"startObject", 2>>
  /\ Len(SelectSeq(sEvents, IsKeyEvent)) = 6

=============================================================================
